---- MODULE Spec2Model ----
(***************************************************************************)
(* A model of the syntax-tree construction engine of the OSL compiler     *)
(* (src/src/liboslcomp/ast.cpp): node constructors, constant folding,     *)
(* declaration bookkeeping, access resolution, writeability checks and    *)
(* the sibling-chain utilities.                                            *)
(*                                                                         *)
(* The heap of AST nodes is the sequence `nodes`; a node reference is an  *)
(* index into it and 0 is the null reference.  Freed nodes stay in the    *)
(* sequence with their `deleted` counter raised, so that double frees and *)
(* uses after free are observable.                                         *)
(***************************************************************************)
EXTENDS Integers, Sequences, FiniteSets, TLC

VARIABLES
    nodes,      \* heap of AST nodes (records), indexed from 1
    syms,       \* every Symbol ever created (records), indexed from 1
    scopestack, \* the symbol table's stack of open scope ids (top = last)
    nextscope,  \* next scope id the symbol table hands out
    diags,      \* the diagnostic sink: sequence of emitted diagnostics
    extcalls,   \* calls made to external collaborators (typecheck, ...)
    last,       \* what the most recent engine call was given and returned
    crashed,    \* TRUE once the process has trapped
    dstack,     \* call stack of running ~ASTNode frames
    roots,      \* references held from outside the nodes (driver, vectors)
    vec         \* the std::vector<ref> used by list_to_vec / vec_to_list

vars == <<nodes, syms, scopestack, nextscope, diags, extcalls, last, crashed,
          dstack, roots, vec>>

----------------------------------------------------------------------------
(* Bounds of the model *)

\* Nodes the constant-folding driver may allocate.
MaxFoldNodes == 3

\* Declaration nodes the declaration driver may construct.
MaxDecls == 3

\* Heap size up to which the expression driver wraps an lvalue further.
MaxTreeNodes == 4

\* Longest sibling list the list driver builds.
MaxChain == 3

----------------------------------------------------------------------------
(* 32-bit int arithmetic, computed without leaving the 32-bit range *)

INT_MAX == 2147483647
INT_MIN == -INT_MAX - 1
IntBits == 32

InInt(x) == INT_MIN <= x /\ x <= INT_MAX

\* a + b is not representable in int
AddOverflows(a, b) ==
    \/ a > 0 /\ b > 0 /\ a > INT_MAX - b
    \/ a < 0 /\ b < 0 /\ a < INT_MIN - b

\* a + b reduced modulo 2^32 into the int range
WrapAdd(a, b) ==
    IF a > 0 /\ b > 0 /\ a > INT_MAX - b THEN (a + INT_MIN) + (b + INT_MIN)
    ELSE IF a < 0 /\ b < 0 /\ a < INT_MIN - b THEN (a - INT_MIN) + (b - INT_MIN)
    ELSE a + b

WrapNeg(a) == IF a = INT_MIN THEN INT_MIN ELSE -a

SubOverflows(a, b) ==
    IF b = INT_MIN THEN a >= 0 ELSE AddOverflows(a, -b)

WrapSub(a, b) ==
    IF b = INT_MIN THEN (IF a >= 0 THEN a + INT_MIN ELSE a - INT_MIN)
    ELSE WrapAdd(a, -b)

\* C's truncating quotient; b # 0 and not (a = INT_MIN and b = -1)
TruncDiv(a, b) ==
    IF b = INT_MIN THEN (IF a = INT_MIN THEN 1 ELSE 0)
    ELSE IF b > 0 THEN
        (IF a >= 0 THEN a \div b
         ELSE (a \div b) + (IF a % b = 0 THEN 0 ELSE 1))
    ELSE \* b < 0, b # INT_MIN
        (IF a >= 0 THEN -(a \div (-b))
         ELSE -((a \div (-b)) + (IF a % (-b) = 0 THEN 0 ELSE 1)))

\* C's remainder: sign of the dividend
TruncMod(a, b) == a - b * TruncDiv(a, b)

\* 2^k for 0 <= k <= 30
Pow2(k) ==
    <<1, 2, 4, 8, 16, 32, 64, 128, 256, 512, 1024, 2048, 4096, 8192, 16384,
      32768, 65536, 131072, 262144, 524288, 1048576, 2097152, 4194304,
      8388608, 16777216, 33554432, 67108864, 134217728, 268435456,
      536870912, 1073741824>>[k + 1]

\* a * 2^n reduced modulo 2^32, 0 <= n < 32: the low 32 - n bits of a,
\* read as a signed number of that width, moved up by n
Shl32(a, n) ==
    IF n = 0 THEN a
    ELSE IF n = IntBits - 1 THEN (IF a % 2 = 1 THEN INT_MIN ELSE 0)
    ELSE LET half == Pow2(IntBits - n - 1)
             low  == a % half
             sign == (a \div half) % 2
         IN (IF sign = 1 THEN low - half ELSE low) * Pow2(n)

\* arithmetic right shift: floor(a / 2^n), 0 <= n < 32
Sar32(a, n) ==
    IF n = IntBits - 1 THEN (IF a < 0 THEN -1 ELSE 0) ELSE a \div Pow2(n)

\* a * 2^n is not representable in int (0 <= n < 32)
ShlOverflows(a, n) == Sar32(Shl32(a, n), n) # a

\* a * b reduced modulo 2^32, from the 16-bit halves of the operands
WrapMul(a, b) ==
    LET al == a % 65536
        ah == a \div 65536
        bl == b % 65536
        bh == b \div 65536
        cross == WrapAdd(ah * bl, al * bh)
        lolo  == WrapAdd(Shl32(al * (bl \div 256), 8), al * (bl % 256))
    IN WrapAdd(Shl32(cross, 16), lolo)

MulOverflows(a, b) ==
    /\ a # 0
    /\ b # 0
    /\ \/ (a = -1 /\ b = INT_MIN)
       \/ (b = -1 /\ a = INT_MIN)
       \/ (a # -1 /\ b # -1 /\ TruncDiv(WrapMul(a, b), a) # b)

\* The k-th byte of the two's complement representation, k \in 0..3
Byte(a, k) == (a \div Pow2(8 * k)) % 256

FromBytes(b3, b2, b1, b0) ==
    (IF b3 >= 128 THEN b3 - 256 ELSE b3) * 16777216
    + b2 * 65536 + b1 * 256 + b0

RECURSIVE And8(_, _)
And8(x, y) ==
    IF x = 0 \/ y = 0 THEN 0
    ELSE 2 * And8(x \div 2, y \div 2) + ((x % 2) * (y % 2))

BitAnd32(a, b) ==
    FromBytes(And8(Byte(a, 3), Byte(b, 3)), And8(Byte(a, 2), Byte(b, 2)),
              And8(Byte(a, 1), Byte(b, 1)), And8(Byte(a, 0), Byte(b, 0)))

\* ~a
BitNot32(a) == (-1) - a

\* a | b = ~(~a & ~b)
BitOr32(a, b) == BitNot32(BitAnd32(BitNot32(a), BitNot32(b)))

\* a ^ b = (a | b) & ~(a & b)
BitXor32(a, b) == BitAnd32(BitOr32(a, b), BitNot32(BitAnd32(a, b)))

----------------------------------------------------------------------------
(* binary32 values that are dyadic rationals: n / 2^e, e >= 0, n odd or e = 0 *)

RECURSIVE FMk(_, _)
FMk(n, e) ==
    IF n = 0 THEN [n |-> 0, e |-> 0]
    ELSE IF e > 0 /\ n % 2 = 0 THEN FMk(n \div 2, e - 1)
    ELSE [n |-> n, e |-> e]

FZero == FMk(0, 0)
FMaxE(a, b) == IF a.e >= b.e THEN a.e ELSE b.e
\* numerator of a over the denominator 2^e, e >= a.e
FScaled(a, e) == a.n * Pow2(e - a.e)

FAdd(a, b) == FMk(FScaled(a, FMaxE(a, b)) + FScaled(b, FMaxE(a, b)), FMaxE(a, b))
FSub(a, b) == FMk(FScaled(a, FMaxE(a, b)) - FScaled(b, FMaxE(a, b)), FMaxE(a, b))
FMul(a, b) == FMk(a.n * b.n, a.e + b.e)
FLess(a, b) == FScaled(a, FMaxE(a, b)) < FScaled(b, FMaxE(a, b))
FIsZero(a) == a.n = 0

RECURSIVE OddPart(_)
OddPart(n) == IF n % 2 = 0 THEN OddPart(n \div 2) ELSE n
RECURSIVE TwoExp(_)
TwoExp(n) == IF n % 2 = 0 THEN 1 + TwoExp(n \div 2) ELSE 0

\* a / b for b # 0.  With b = m * 2^k / 2^b.e (m odd) the quotient is
\* (a.n * 2^b.e / m) / 2^(a.e + k); it is exact whenever m divides a.n,
\* which is the case for every pair of literals the model draws (their
\* divisors are signed powers of two).
FDiv(a, b) ==
    FMk(TruncDiv(a.n * Pow2(b.e), OddPart(b.n)), a.e + TwoExp(b.n))

----------------------------------------------------------------------------
(* Type descriptors (TypeSpec): base type, array length, closure flag *)

\* arr: 0 = not an array, -1 = unsized array, n > 0 = array of n elements
TS(base, arr, closure, structid) ==
    [base |-> base, arr |-> arr, closure |-> closure, structid |-> structid]

TypeUnknown == TS("unknown", 0, FALSE, 0)
TypeInt     == TS("int", 0, FALSE, 0)
TypeFloat   == TS("float", 0, FALSE, 0)
TypeString  == TS("string", 0, FALSE, 0)

is_unknown(t) == t = TypeUnknown
is_array(t)   == t.arr # 0
is_unsized_array(t) == t.arr < 0
is_closure(t) == t.closure /\ t.arr = 0
is_int(t)     == t.base = "int" /\ t.arr = 0 /\ ~t.closure
is_float(t)   == t.base = "float" /\ t.arr = 0 /\ ~t.closure
is_string(t)  == t.base = "string" /\ t.arr = 0 /\ ~t.closure
is_triple(t)  == t.base \in {"color", "point", "vector", "normal"}
                 /\ t.arr = 0 /\ ~t.closure
is_color(t)   == t.base = "color" /\ t.arr = 0 /\ ~t.closure
is_vectriple(t) == t.base \in {"point", "vector", "normal"}
                   /\ t.arr = 0 /\ ~t.closure
is_matrix(t)  == t.base = "matrix" /\ t.arr = 0 /\ ~t.closure
is_structure(t) == t.structid > 0 /\ t.arr = 0
is_structure_array(t) == t.structid > 0 /\ t.arr # 0
elementtype(t) == [t EXCEPT !.arr = 0]
arraylength(t) == t.arr

----------------------------------------------------------------------------
(* AST nodes *)

\* A freshly constructed ASTNode: the base-class constructor stores the
\* node type, the operator and the children it was given.
ASTNode(nodetype, op, children) ==
    [nodetype |-> nodetype, op |-> op, children |-> children, next |-> 0,
     typespec |-> TypeUnknown, is_lvalue |-> FALSE, name |-> "", sym |-> 0,
     i |-> 0, f |-> FZero, overload |-> 0, compindex |-> 0,
     isparam |-> FALSE, isoutput |-> FALSE, ismeta |-> FALSE,
     initlist |-> FALSE, is_builtin |-> FALSE, sym_owned |-> FALSE, sourceline |-> 0,
     refs |-> 0, deleted |-> 0]

\* ASTliteral(comp, int) / ASTliteral(comp, float) / ASTliteral(comp, string)
IntLiteral(v)   == [ASTNode("literal", 0, <<>>) EXCEPT
                       !.typespec = TypeInt, !.i = v]
FloatLiteral(v) == [ASTNode("literal", 0, <<>>) EXCEPT
                       !.typespec = TypeFloat, !.f = v]
StringLiteral   == [ASTNode("literal", 0, <<>>) EXCEPT !.typespec = TypeString]

NodeIds == 1 .. Len(nodes)

\* addchild: every non-null child gains one reference
RECURSIVE AddRefs(_, _)
AddRefs(heap, ids) ==
    IF ids = <<>> THEN heap
    ELSE LET c == Head(ids)
             h == IF c = 0 THEN heap
                  ELSE [heap EXCEPT ![c].refs = @ + 1]
         IN AddRefs(h, Tail(ids))

\* The nodes that hold n in their m_children
Parents(heap, n) ==
    {p \in 1 .. Len(heap) :
        /\ heap[p].deleted = 0
        /\ \E k \in 1 .. Len(heap[p].children) : heap[p].children[k] = n}

----------------------------------------------------------------------------
(* The symbol table (external collaborator) *)

InScope(s) == \E k \in 1 .. Len(scopestack) : scopestack[k] = s
ScopeDepth(s) == CHOOSE k \in 1 .. Len(scopestack) : scopestack[k] = s
scopeid == scopestack[Len(scopestack)]

\* Symbols of that name visible from the current scope
Visible(name) ==
    {k \in 1 .. Len(syms) :
        syms[k].inserted > 0 /\ syms[k].name = name /\ InScope(syms[k].scope)}

\* find(name): the innermost visible symbol, the latest one of its scope
SymFind(name) ==
    IF Visible(name) = {} THEN 0
    ELSE CHOOSE k \in Visible(name) :
            \A j \in Visible(name) :
                \/ ScopeDepth(syms[j].scope) < ScopeDepth(syms[k].scope)
                \/ (syms[j].scope = syms[k].scope /\ j <= k)

\* clash(name): the symbol find returns, when it is of the current scope
SymClash(name) ==
    IF SymFind(name) # 0 /\ syms[SymFind(name)].scope = scopeid
    THEN SymFind(name) ELSE 0

----------------------------------------------------------------------------
(* Constant folding: ASTbinary_expression::make *)

Operators == {"Mul", "Div", "Add", "Sub", "Mod", "Equal", "NotEqual",
              "Greater", "GreaterEqual", "Less", "LessEqual", "BitAnd",
              "BitOr", "Xor", "And", "Or", "ShiftLeft", "ShiftRight"}

\* One way an evaluation can end: a value, or a trap of the process
Value(v) == [trap |-> FALSE, v |-> v]
Trap     == [trap |-> TRUE, v |-> 0]

\* A C++ int expression whose exact result overflows is undefined: builds
\* wrap (two's complement) or trap (-ftrapv, sanitizers).
Overflowing(wrapped) == {Value(wrapped), Trap}

\* lv / rv on int.  INT_MIN / -1 is undefined: the x86 idiv instruction
\* raises SIGFPE, other targets deliver INT_MIN.
IntQuotient(lv, rv) ==
    IF lv = INT_MIN /\ rv = -1 THEN Overflowing(INT_MIN)
    ELSE {Value(TruncDiv(lv, rv))}

\* lv % rv on int.  INT_MIN % -1 is undefined: SIGFPE on x86, 0 elsewhere.
IntRemainder(lv, rv) ==
    IF lv = INT_MIN /\ rv = -1 THEN Overflowing(0)
    ELSE {Value(TruncMod(lv, rv))}

\* lv << rv on int.  A count outside 0..31 is undefined: x86 and AArch64
\* use the count modulo 32, 32-bit ARM uses its low byte and shifts
\* everything out for 32..255; sanitized builds trap.  A negative lv or a
\* result that does not fit is undefined before C++20 and wraps in practice.
IntShiftLeft(lv, rv) ==
    IF rv < 0 \/ rv >= IntBits
    THEN {Value(Shl32(lv, rv % IntBits)),
          Value(IF rv % 256 >= IntBits THEN 0 ELSE Shl32(lv, rv % 256)),
          Trap}
    ELSE IF lv < 0 \/ ShlOverflows(lv, rv) THEN Overflowing(Shl32(lv, rv))
    ELSE {Value(Shl32(lv, rv))}

\* lv >> rv on int (arithmetic shift); a count outside 0..31 is undefined.
IntShiftRight(lv, rv) ==
    IF rv < 0 \/ rv >= IntBits
    THEN {Value(Sar32(lv, rv % IntBits)),
          Value(IF rv % 256 >= IntBits THEN (IF lv < 0 THEN -1 ELSE 0)
                ELSE Sar32(lv, rv % 256)),
          Trap}
    ELSE {Value(Sar32(lv, rv))}

Bool01(b) == IF b THEN 1 ELSE 0

\* The switch over op for two int literals: the set of ways the evaluation
\* of the folded value can end; empty when the operator is not folded.
FoldIntValues(op, lv, rv) ==
    CASE op = "Mul" -> IF MulOverflows(lv, rv)
                       THEN Overflowing(WrapMul(lv, rv))
                       ELSE {Value(WrapMul(lv, rv))}
      [] op = "Div" -> IF rv # 0 THEN IntQuotient(lv, rv) ELSE {Value(0)}
      [] op = "Add" -> IF AddOverflows(lv, rv)
                       THEN Overflowing(WrapAdd(lv, rv))
                       ELSE {Value(lv + rv)}
      [] op = "Sub" -> IF SubOverflows(lv, rv)
                       THEN Overflowing(WrapSub(lv, rv))
                       ELSE {Value(lv - rv)}
      [] op = "Mod" -> IF rv # 0 THEN IntRemainder(lv, rv) ELSE {Value(0)}
      [] op = "Equal"        -> {Value(Bool01(lv = rv))}
      [] op = "NotEqual"     -> {Value(Bool01(lv # rv))}
      [] op = "Greater"      -> {Value(Bool01(lv > rv))}
      [] op = "Less"         -> {Value(Bool01(lv < rv))}
      [] op = "GreaterEqual" -> {Value(Bool01(lv >= rv))}
      [] op = "LessEqual"    -> {Value(Bool01(lv <= rv))}
      [] op = "BitAnd"       -> {Value(BitAnd32(lv, rv))}
      [] op = "BitOr"        -> {Value(BitOr32(lv, rv))}
      [] op = "Xor"          -> {Value(BitXor32(lv, rv))}
      [] op = "ShiftLeft"    -> IntShiftLeft(lv, rv)
      [] op = "ShiftRight"   -> IntShiftRight(lv, rv)
      [] OTHER -> {}

\* One outcome of make's folding: the literal node cf, or a trap
Folded(node) == [trap |-> FALSE, node |-> node]
FoldTrap     == [trap |-> TRUE, node |-> IntLiteral(0)]

FoldInt(op, lv, rv) ==
    {IF o.trap THEN FoldTrap ELSE Folded(IntLiteral(o.v)) :
        o \in FoldIntValues(op, lv, rv)}

FoldFloat_DivZeroMutant(op, lv, rv) ==
    CASE op = "Mul" -> {Folded(FloatLiteral(FMul(lv, rv)))}
      [] op = "Div" -> {Folded(FloatLiteral(
                           IF ~FIsZero(rv) THEN FDiv(lv, rv) ELSE lv))}
      [] op = "Add" -> {Folded(FloatLiteral(FAdd(lv, rv)))}
      [] op = "Sub" -> {Folded(FloatLiteral(FSub(lv, rv)))}
      [] op = "Equal"        -> {Folded(IntLiteral(Bool01(lv = rv)))}
      [] op = "NotEqual"     -> {Folded(IntLiteral(Bool01(lv # rv)))}
      [] op = "Greater"      -> {Folded(IntLiteral(Bool01(FLess(rv, lv))))}
      [] op = "Less"         -> {Folded(IntLiteral(Bool01(FLess(lv, rv))))}
      [] op = "GreaterEqual" -> {Folded(IntLiteral(Bool01(~FLess(lv, rv))))}
      [] op = "LessEqual"    -> {Folded(IntLiteral(Bool01(~FLess(rv, lv))))}
      [] OTHER -> {}

\* The switch over op for two float literals; empty when not folded.
FoldFloat(op, lv, rv) ==
    CASE op = "Mul" -> {Folded(FloatLiteral(FMul(lv, rv)))}
      [] op = "Div" -> {Folded(FloatLiteral(
                           IF ~FIsZero(rv) THEN FDiv(lv, rv) ELSE FZero))}
      [] op = "Add" -> {Folded(FloatLiteral(FAdd(lv, rv)))}
      [] op = "Sub" -> {Folded(FloatLiteral(FSub(lv, rv)))}
      [] op = "Equal"        -> {Folded(IntLiteral(Bool01(lv = rv)))}
      [] op = "NotEqual"     -> {Folded(IntLiteral(Bool01(lv # rv)))}
      [] op = "Greater"      -> {Folded(IntLiteral(Bool01(FLess(rv, lv))))}
      [] op = "Less"         -> {Folded(IntLiteral(Bool01(FLess(lv, rv))))}
      [] op = "GreaterEqual" -> {Folded(IntLiteral(Bool01(~FLess(lv, rv))))}
      [] op = "LessEqual"    -> {Folded(IntLiteral(Bool01(~FLess(rv, lv))))}
      [] OTHER -> {}

\* The outcomes of the folding block of make for operands l and r
FoldOutcomes(heap, op, l, r) ==
    IF heap[l].nodetype = "literal" /\ heap[r].nodetype = "literal"
    THEN IF is_int(heap[l].typespec) /\ is_int(heap[r].typespec)
         THEN FoldInt(op, heap[l].i, heap[r].i)
         ELSE IF is_float(heap[l].typespec) /\ is_float(heap[r].typespec)
         THEN FoldFloat(op, heap[l].f, heap[r].f)
         ELSE {}
    ELSE {}

opword(op) ==
    CASE op = "Mul" -> "mul" [] op = "Div" -> "div" [] op = "Add" -> "add"
      [] op = "Sub" -> "sub" [] op = "Mod" -> "mod" [] op = "Equal" -> "eq"
      [] op = "NotEqual" -> "neq" [] op = "Greater" -> "gt"
      [] op = "GreaterEqual" -> "ge" [] op = "Less" -> "lt"
      [] op = "LessEqual" -> "le" [] op = "BitAnd" -> "bitand"
      [] op = "BitOr" -> "bitor" [] op = "Xor" -> "xor" [] op = "And" -> "and"
      [] op = "Or" -> "or" [] op = "ShiftLeft" -> "shl"
      [] op = "ShiftRight" -> "shr"

\* The name under which a user overload of the operator is looked up
OverloadName(op) == "__operator__" \o opword(op) \o "__"

\* ASTbinary_expression constructor: children (left, right) and the user
\* overload of the operator, if a function of that name is visible.
ASTbinary_expression(op, left, right) ==
    [ASTNode("binary_expression", op, <<left, right>>) EXCEPT
        !.overload =
            IF op # "And" /\ op # "Or"
               /\ SymFind(OverloadName(op)) # 0
               /\ syms[SymFind(OverloadName(op))].symtype = "Function"
            THEN SymFind(OverloadName(op)) ELSE 0]

DeleteOperands_LeakRightMutant(heap, left, right) ==
    [heap EXCEPT ![left].deleted = @ + 1]

\* delete left; delete right;  (both are childless, unchained literals)
DeleteOperands(heap, left, right) ==
    [heap EXCEPT ![left].deleted = @ + 1, ![right].deleted = @ + 1]

----------------------------------------------------------------------------
(* Specification SpecFold: a driver that builds operands and folds them *)

\* int literals the driver draws: the extremes, negatives, zero, in-range
\* and out-of-range shift counts
IntVals == {INT_MIN, -7, -1, 0, 2, 3, IntBits, INT_MAX}

\* float literals the driver draws: 0 and signed powers of two
FloatVals == {FMk(-2, 0), FZero, FMk(1, 1), FMk(1, 0), FMk(4, 0)}

\* a non-literal operand: a reference to an int variable
IntVarRef == [ASTNode("variable_ref", 0, <<>>) EXCEPT
                 !.typespec = TypeInt, !.name = "x"]

OperandNodes ==
    {IntLiteral(v) : v \in IntVals} \cup {FloatLiteral(v) : v \in FloatVals}
    \cup {StringLiteral, IntVarRef}

\* Nodes that are alive and held by no parent: the parser's value stack
LiveRoots == {n \in NodeIds : nodes[n].deleted = 0 /\ Parents(nodes, n) = {}}
TopRoot == CHOOSE n \in LiveRoots : \A m \in LiveRoots : m <= n
SecondRoot ==
    CHOOSE n \in LiveRoots \ {TopRoot} : \A m \in LiveRoots \ {TopRoot} : m <= n

NoCall == [call |-> "none"]

InitCommon ==
    /\ syms = <<>>
    /\ scopestack = <<0>>
    /\ nextscope = 1
    /\ diags = <<>>
    /\ extcalls = <<>>
    /\ last = NoCall
    /\ crashed = FALSE
    /\ dstack = <<>>
    /\ roots = {}
    /\ vec = <<>>

InitFold == nodes = <<>> /\ InitCommon

\* The driver reduces an operand: a literal or a variable reference
FoldOperand ==
    /\ ~crashed
    /\ Len(nodes) < MaxFoldNodes
    /\ \E nd \in OperandNodes :
        /\ nodes' = Append(nodes, nd)
        /\ last' = [call |-> "operand", result |-> Len(nodes) + 1]
    /\ UNCHANGED <<syms, scopestack, nextscope, diags, extcalls, crashed,
                   dstack, roots, vec>>

\* What a call of make records: its arguments, its result (0 when it did
\* not return) and the heap size before it
MakeCall(op, l, r, result, trapped) ==
    [call |-> "make", op |-> op, left |-> l, right |-> r,
     result |-> result, trapped |-> trapped, nbefore |-> Len(nodes)]

\* ASTbinary_expression::make(comp, op, left, right)
binary_make(op, l, r) ==
    LET outs == FoldOutcomes(nodes, op, l, r)
        new  == Len(nodes) + 1
    IN IF outs = {}
       THEN /\ nodes' = Append(AddRefs(nodes, <<l, r>>),
                               ASTbinary_expression(op, l, r))
            /\ last' = MakeCall(op, l, r, new, FALSE)
            /\ crashed' = crashed
       ELSE \E o \in outs :
            IF o.trap
            THEN /\ nodes' = nodes
                 /\ last' = MakeCall(op, l, r, 0, TRUE)
                 /\ crashed' = TRUE
            ELSE /\ nodes' = Append(DeleteOperands(nodes, l, r), o.node)
                 /\ last' = MakeCall(op, l, r, new, FALSE)
                 /\ crashed' = crashed

\* The driver reduces `expr op expr` over the two topmost operands
FoldMake ==
    /\ ~crashed
    /\ Len(nodes) < MaxFoldNodes
    /\ Cardinality(LiveRoots) >= 2
    /\ \E op \in Operators : binary_make(op, SecondRoot, TopRoot)
    /\ UNCHANGED <<syms, scopestack, nextscope, diags, extcalls, dstack,
                   roots, vec>>

NextFold == FoldOperand \/ FoldMake

SpecFold == InitFold /\ [][NextFold]_vars

----------------------------------------------------------------------------
(* Properties of constant folding, checked under SpecFold *)

IntFoldOps == {"Mul", "Div", "Add", "Sub", "Mod", "Equal", "NotEqual",
               "Greater", "GreaterEqual", "Less", "LessEqual", "BitAnd",
               "BitOr", "Xor", "ShiftLeft", "ShiftRight"}
FloatArithOps == {"Mul", "Div", "Add", "Sub"}
CompareOps == {"Equal", "NotEqual", "Greater", "GreaterEqual", "Less",
               "LessEqual"}
BitShiftOps == {"BitAnd", "BitOr", "Xor", "ShiftLeft", "ShiftRight"}

IsLiteralOf(n, t) == nodes[n].nodetype = "literal" /\ nodes[n].typespec = t

\* The last call was make over two literals of type t
MadeOver(t) ==
    /\ last.call = "make"
    /\ IsLiteralOf(last.left, t)
    /\ IsLiteralOf(last.right, t)

\* The exact (unbounded integer) result of a op b is an int
ExactIsInt(op, a, b) ==
    CASE op = "Mul" -> ~MulOverflows(a, b)
      [] op = "Add" -> ~AddOverflows(a, b)
      [] op = "Sub" -> ~SubOverflows(a, b)
      [] op = "Div" -> ~(a = INT_MIN /\ b = -1)
      [] op = "ShiftLeft" ->
            b >= 0 /\ (a = 0 \/ (b < IntBits /\ ~ShlOverflows(a, b)))
      [] op = "ShiftRight" -> b >= 0
      [] OTHER -> TRUE

\* The exact result of a op b, where it is an int: truncating quotient and
\* its remainder, 0 for a zero divisor, a * 2^b and floor(a / 2^b)
ExactInt(op, a, b) ==
    CASE op = "Mul" -> WrapMul(a, b)
      [] op = "Add" -> a + b
      [] op = "Sub" -> a - b
      [] op = "Div" -> IF b = 0 THEN 0 ELSE TruncDiv(a, b)
      [] op = "Mod" -> IF b = 0 \/ b = -1 THEN 0 ELSE TruncMod(a, b)
      [] op = "Equal"        -> Bool01(a = b)
      [] op = "NotEqual"     -> Bool01(a # b)
      [] op = "Greater"      -> Bool01(a > b)
      [] op = "GreaterEqual" -> Bool01(a >= b)
      [] op = "Less"         -> Bool01(a < b)
      [] op = "LessEqual"    -> Bool01(a <= b)
      [] op = "BitAnd"       -> BitAnd32(a, b)
      [] op = "BitOr"        -> BitOr32(a, b)
      [] op = "Xor"          -> BitXor32(a, b)
      [] op = "ShiftLeft"    -> IF a = 0 THEN 0 ELSE Shl32(a, b)
      [] op = "ShiftRight"   ->
            IF b >= IntBits THEN (IF a < 0 THEN -1 ELSE 0) ELSE Sar32(a, b)

\* C1: for every pair of int literals (a, b) and every operator of
\* IntFoldOps, make returns an int literal whose value is the exact result
\* of a op b (0 for Div and Mod by zero).
C1_IntFoldExact ==
    (MadeOver(TypeInt) /\ last.op \in IntFoldOps)
    => /\ last.result # 0
       /\ IsLiteralOf(last.result, TypeInt)
       /\ ExactIsInt(last.op, nodes[last.left].i, nodes[last.right].i)
       /\ nodes[last.result].i
            = ExactInt(last.op, nodes[last.left].i, nodes[last.right].i)

\* C2: two float literals fold under Mul, Div, Add, Sub into a float
\* literal (Div by a zero divisor into the float literal 0), under the six
\* comparisons into an int literal 1 or 0, and under the bitwise and shift
\* operators they do not fold: a binary-expression node is returned.
C2_FloatFold ==
    MadeOver(TypeFloat)
    => /\ last.result # 0
       /\ last.op \in FloatArithOps
            => IsLiteralOf(last.result, TypeFloat)
       /\ (last.op = "Div" /\ FIsZero(nodes[last.right].f))
            => nodes[last.result].f = FZero
       /\ last.op \in CompareOps
            => /\ IsLiteralOf(last.result, TypeInt)
               /\ nodes[last.result].i \in {0, 1}
       /\ last.op \in BitShiftOps
            => /\ nodes[last.result].nodetype = "binary_expression"
               /\ nodes[last.result].op = last.op

\* A float division by a zero divisor was folded
C2_Witness ==
    /\ MadeOver(TypeFloat)
    /\ last.op = "Div"
    /\ FIsZero(nodes[last.right].f)
    /\ ~FIsZero(nodes[last.left].f)
    /\ IsLiteralOf(last.result, TypeFloat)

\* make returned a folded literal
ReturnedFolded ==
    last.result # 0 /\ nodes[last.result].nodetype = "literal"

\* The case in which make folds: two int literals under an operator of
\* IntFoldOps, or two float literals under an arithmetic or comparison one
FoldingCase ==
    \/ MadeOver(TypeInt) /\ last.op \in IntFoldOps
    \/ MadeOver(TypeFloat) /\ last.op \in FloatArithOps \cup CompareOps

\* C3: make destroys its operands if and only if it returns a folded
\* literal; when it folds, each operand is deleted exactly once and the
\* literal is the only node constructed; in every other case it returns a
\* binary-expression node with children (left, right), neither destroyed.
C3_OperandsDestroyedIffFolded ==
    last.call = "make"
    => /\ ReturnedFolded <=> nodes[last.left].deleted > 0
       /\ ReturnedFolded <=> nodes[last.right].deleted > 0
       /\ ReturnedFolded
            => /\ nodes[last.left].deleted = 1
               /\ nodes[last.right].deleted = 1
               /\ Len(nodes) = last.nbefore + 1
               /\ last.result = Len(nodes)
       /\ ~FoldingCase
            => /\ last.result # 0
               /\ nodes[last.result].nodetype = "binary_expression"
               /\ nodes[last.result].op = last.op
               /\ nodes[last.result].children = <<last.left, last.right>>
               /\ nodes[last.left].deleted = 0
               /\ nodes[last.right].deleted = 0
               /\ nodes[last.left].refs = 1
               /\ nodes[last.right].refs = 1

\* Two int literals were folded and destroyed
C3_Witness ==
    /\ MadeOver(TypeInt)
    /\ ReturnedFolded
    /\ nodes[last.left].deleted = 1
    /\ nodes[last.right].deleted = 1

----------------------------------------------------------------------------
(* Symbols, diagnostics and type codes (external collaborators) *)

\* Symbol(name, type, symtype, node): a record not yet in the table
Symbol(name, typespec, symtype, node) ==
    [name |-> name, typespec |-> typespec, symtype |-> symtype,
     node |-> node, scope |-> 0, inserted |-> 0, readonly |-> FALSE,
     nextpoly |-> 0, argcodes |-> "", takes_derivs |-> FALSE,
     printf_args |-> FALSE, texture_args |-> FALSE,
     readwrite_special_case |-> FALSE]

FunctionSymbol(name, typespec, node) ==
    Symbol(name, typespec, "Function", node)

\* symtab().insert(sym): the symbol enters the current scope
SymInsert(tab, k) ==
    [tab EXCEPT ![k].scope = scopeid, ![k].inserted = @ + 1]

\* One emitted diagnostic: severity, which message, the reporting node,
\* the name it is about and the previous locations the message lists
Diag(sev, kind, node, name, prev) ==
    [sev |-> sev, kind |-> kind, node |-> node, name |-> name, prev |-> prev]

\* "file:line" of a node, and the word "built-in", as a message lists them
FileLine(node) == [builtin |-> FALSE, line |-> nodes[node].sourceline]
BuiltIn == [builtin |-> TRUE, line |-> 0]

\* Strutil::starts_with
starts_with(s, prefix) ==
    Len(s) >= Len(prefix) /\ SubSeq(s, 1, Len(prefix)) = prefix

\* A structure type of the compilation unit
TypeStruct == TS("struct", 0, FALSE, 1)
TypeStructArray == TS("struct", -1, FALSE, 1)
TypeStructArray2 == TS("struct", 2, FALSE, 1)

\* code_from_type: the letter a type contributes to a signature encoding
code_from_type(t) ==
    CASE is_int(t) -> "i"
      [] is_float(t) -> "f"
      [] is_string(t) -> "s"
      [] is_structure(t) \/ is_structure_array(t) -> "S"
      [] OTHER -> "?"

----------------------------------------------------------------------------
(* Declarations: ASTvariable_declaration, ASTfunction_declaration *)

\* Live nodes next-linked to n, and the live nodes nothing holds yet: the
\* values on the parser's stack
Preds(heap, n) ==
    {p \in 1 .. Len(heap) : heap[p].deleted = 0 /\ heap[p].next = n}
Pending ==
    {n \in NodeIds : /\ nodes[n].deleted = 0
                     /\ Parents(nodes, n) = {}
                     /\ Preds(nodes, n) = {}}

\* The ids of a set in ascending order: a list in source order
RECURSIVE SeqOf(_)
SeqOf(S) ==
    IF S = {} THEN <<>>
    ELSE LET lo == CHOOSE n \in S : \A m \in S : n <= m
         IN <<lo>> \o SeqOf(S \ {lo})

\* concat: the nodes of ids linked into one sibling list, each link a ref
RECURSIVE Chain(_, _)
Chain(heap, ids) ==
    IF Len(ids) < 2 THEN heap
    ELSE Chain([heap EXCEPT ![ids[1]].next = ids[2], ![ids[2]].refs = @ + 1],
               Tail(ids))
ListHead(ids) == IF ids = <<>> THEN 0 ELSE Head(ids)

\* The redeclaration diagnostic of a variable declaration (new) whose name
\* clash() found as symbol f: an error, or a warning for a parameter that
\* masks a function of scope 0; it cites f's node when f has one.
RedeclaredSev_AlwaysErrorMutant(f, isparam) == "error"
RedeclaredSev(f, isparam) ==
    IF syms[f].scope = 0 /\ syms[f].symtype = "Function" /\ isparam
    THEN "warning" ELSE "error"

RedeclaredDiags(f, ismeta, isparam, name, new) ==
    IF f # 0 /\ ~ismeta
    THEN <<Diag(RedeclaredSev(f, isparam), "redeclared", new, name,
                IF syms[f].node # 0 THEN <<FileLine(syms[f].node)>>
                ELSE <<>>)>>
    ELSE <<>>

\* "sorry, can't start with three underscores"
UnderscoreDiags(name, new) ==
    IF starts_with(name, "___")
    THEN <<Diag("error", "underscores", new, name, <<>>)>>
    ELSE <<>>

VarSymType(name, isparam, isoutput) ==
    IF isparam THEN (IF isoutput THEN "OutputParam" ELSE "Param")
    ELSE IF starts_with(name, "__debug_tmp__") THEN "Temp" ELSE "Local"

\* A metadata symbol stays owned by its node; any other goes in the table
OwnOrInsert_InsertAllMutant(tab, k, ismeta) == SymInsert(tab, k)
OwnOrInsert(tab, k, ismeta) == IF ismeta THEN tab ELSE SymInsert(tab, k)

\* What a constructed variable declaration records of its call
VarDeclCall(in, init, new, f) ==
    [call |-> "vardecl", node |-> new, name |-> in.name, type |-> in.type,
     isparam |-> in.isparam, isoutput |-> in.isoutput, ismeta |-> in.ismeta,
     initlist |-> in.initlist, init |-> init, clash |-> f,
     scope |-> scopeid, dbefore |-> Len(diags), sbefore |-> Len(syms),
     xbefore |-> Len(extcalls), nbefore |-> Len(nodes)]

\* The call of add_struct_fields a declaration makes, as the collaborator
\* sees it: its arguments and whether the declaration's symbol is in the
\* table by then
StructFieldCall(in, symtype, new, init) ==
    [fn |-> "add_struct_fields", structid |-> in.type.structid,
     basename |-> in.name, symtype |-> symtype,
     arraylen |-> IF is_unsized_array(in.type) THEN -1
                  ELSE arraylength(in.type),
     node |-> new, init |-> init, inserted |-> ~in.ismeta]

\* A declaration that makes the call for a structure only, not for an
\* array of structures
StructFieldCalls_NotForArraysMutant(in, symtype, new, init) ==
    IF is_structure(in.type)
    THEN <<StructFieldCall(in, symtype, new, init)>>
    ELSE <<>>

\* "A struct really makes several subvariables"
StructFieldCalls(in, symtype, new, init) ==
    IF is_structure(in.type) \/ is_structure_array(in.type)
    THEN <<StructFieldCall(in, symtype, new, init)>>
    ELSE <<>>

\* ASTvariable_declaration(comp, type, name, init, isparam, ismeta,
\*                         isoutput, initlist, sourceline_start),
\* heap0 being the heap that holds the initializer
ASTvariable_declaration(heap0, in, init) ==
    LET new == Len(heap0) + 1
        newsym == Len(syms) + 1
        f == SymClash(in.name)
        symtype == VarSymType(in.name, in.isparam, in.isoutput)
        nd == [ASTNode("variable_declaration", 0, <<init, 0>>) EXCEPT
                  !.name = in.name, !.typespec = in.type, !.sym = newsym,
                  !.isparam = in.isparam, !.isoutput = in.isoutput,
                  !.ismeta = in.ismeta, !.initlist = in.initlist,
                  !.sym_owned = in.ismeta, !.sourceline = new]
        created == Append(syms, Symbol(in.name, in.type, symtype, new))
        checked == IF in.initlist /\ init # 0
                   THEN <<[fn |-> "typecheck_initlist", node |-> init,
                           type |-> in.type]>>
                   ELSE <<>>
        fields == StructFieldCalls(in, symtype, new, init)
    IN /\ nodes' = Append(AddRefs(heap0, <<init>>), nd)
       /\ diags' = diags \o RedeclaredDiags(f, in.ismeta, in.isparam,
                                             in.name, new)
                         \o UnderscoreDiags(in.name, new)
       /\ syms' = OwnOrInsert(created, newsym, in.ismeta)
       /\ extcalls' = extcalls \o checked \o fields
       /\ last' = VarDeclCall(in, init, new, f)

\* The polymorphic chain from symbol f along nextpoly
RECURSIVE PolyChain(_)
PolyChain(f) == IF f = 0 THEN <<>> ELSE <<f>> \o PolyChain(syms[f].nextpoly)

\* statements() of a function declaration node: its third child
statements(node) == nodes[node].children[3]

\* Position of the first formal of unknown type in the list, 0 if none
FirstUnknown(form) ==
    IF \E k \in 1 .. Len(form) : is_unknown(nodes[form[k]].typespec)
    THEN CHOOSE k \in 1 .. Len(form) :
            /\ is_unknown(nodes[form[k]].typespec)
            /\ \A j \in 1 .. k - 1 : ~is_unknown(nodes[form[j]].typespec)
    ELSE 0

\* The formals the signature loop gets through before it returns or ends
Scanned(form) ==
    IF FirstUnknown(form) = 0 THEN form
    ELSE SubSeq(form, 1, FirstUnknown(form) - 1)

\* The signature encoding: return type code, then each formal's type code
RECURSIVE FormalCodes(_)
FormalCodes(form) ==
    IF form = <<>> THEN ""
    ELSE code_from_type(nodes[Head(form)].typespec) \o FormalCodes(Tail(form))
ArgCodes(type, form) == code_from_type(type) \o FormalCodes(form)

\* "function parameter may not have a default initializer", per formal
RECURSIVE DefaultInitDiags(_)
DefaultInitDiags(form) ==
    IF form = <<>> THEN <<>>
    ELSE (IF nodes[Head(form)].children[1] # 0
          THEN <<Diag("error", "default_initializer", Head(form),
                      nodes[Head(form)].name, <<>>)>>
          ELSE <<>>) \o DefaultInitDiags(Tail(form))

\* Whether symbol f of the chain conflicts with a definition of the given
\* encoding made in the current scope
Redefines(f, argcodes) ==
    /\ syms[f].scope = scopeid
    /\ syms[f].argcodes = argcodes
    /\ \/ syms[f].node = 0
       \/ statements(syms[f].node) # 0
       \/ nodes[syms[f].node].is_builtin

\* How the warning lists one previous definition
PreviousEntry_AlwaysFileLineMutant(f) == [builtin |-> FALSE, line |-> 0]
PreviousEntry(f) ==
    IF syms[f].node # 0 THEN FileLine(syms[f].node) ELSE BuiltIn

RECURSIVE PreviousEntries(_, _)
PreviousEntries(chain, argcodes) ==
    IF chain = <<>> THEN <<>>
    ELSE (IF Redefines(Head(chain), argcodes)
          THEN <<PreviousEntry(Head(chain))>> ELSE <<>>)
         \o PreviousEntries(Tail(chain), argcodes)

\* The redefinition warning of a function declaration that has a body
RedefinedDiags(stmts, existing_syms, argcodes, name, new) ==
    IF stmts # 0 /\ PreviousEntries(PolyChain(existing_syms), argcodes) # <<>>
    THEN <<Diag("warning", "redefined", new, name,
                PreviousEntries(PolyChain(existing_syms), argcodes))>>
    ELSE <<>>

\* existing_syms once the clash has been looked at: a symbol that is not a
\* function is reported and then dropped (existing_syms = NULL)
ExistingSyms(clash) ==
    IF clash # 0 /\ syms[clash].symtype # "Function" THEN 0 ELSE clash

\* What a constructed function declaration records of its call
FuncDeclCall(type, name, form, stmts, new, clash, early) ==
    [call |-> "funcdecl", node |-> new, name |-> name, type |-> type,
     form |-> form, stmts |-> stmts, clash |-> clash, early |-> early,
     scope |-> scopeid, dbefore |-> Len(diags), sbefore |-> Len(syms),
     xbefore |-> Len(extcalls), nbefore |-> Len(nodes)]

\* ASTfunction_declaration(comp, type, name, form, stmts, meta,
\*                         sourceline_start), with form and the body given
\* as the lists of nodes the parser has sibling-linked (concat) and
\* heap0 being the heap that holds them
ASTfunction_declaration(heap0, type, name, form, body) ==
    LET new == Len(heap0) + 1
        stmts == ListHead(body)
        newsym == Len(syms) + 1
        clash == SymClash(name)
        notfunc == clash # 0 /\ syms[clash].symtype # "Function"
        existing_syms == ExistingSyms(clash)
        declared == IF notfunc
                    THEN <<Diag("error", "already_declared_as", new, name,
                                <<>>)>>
                    ELSE <<>>
        early == FirstUnknown(form) # 0
        argcodes == ArgCodes(type, Scanned(form))
        heap == AddRefs(Chain(Chain(heap0, form), body),
                        <<ListHead(form), stmts>>)
        nd == [ASTNode("function_declaration", 0,
                       <<0, ListHead(form), stmts>>) EXCEPT
                  !.name = name, !.sourceline = new,
                  !.typespec = IF early THEN TypeUnknown ELSE type,
                  !.sym = IF early THEN 0 ELSE newsym]
        sym == [FunctionSymbol(name, type, new) EXCEPT
                   !.nextpoly = existing_syms, !.argcodes = argcodes]
    IN /\ nodes' = Append(heap, nd)
       /\ last' = FuncDeclCall(type, name, form, stmts, new, clash, early)
       /\ IF early
          THEN /\ diags' = diags \o UnderscoreDiags(name, new) \o declared
                                 \o DefaultInitDiags(Scanned(form))
               /\ UNCHANGED <<syms, extcalls>>
          ELSE /\ diags' = diags \o UnderscoreDiags(name, new) \o declared
                                 \o DefaultInitDiags(form)
                                 \o RedefinedDiags(stmts, existing_syms,
                                                   argcodes, name, new)
               /\ syms' = SymInsert(Append(syms, sym), newsym)
               /\ extcalls' = Append(extcalls,
                                     [fn |-> "typecheck", node |-> new,
                                      type |-> type])

\* The nodes of the sibling list that starts at n, in order
RECURSIVE SiblingList(_, _)
SiblingList(heap, n) ==
    IF n = 0 THEN <<>> ELSE <<n>> \o SiblingList(heap, heap[n].next)

\* formals() of a function declaration node: its second child
formals(node) == nodes[node].children[2]

\* Metadata tags that write to the function symbol
KnownTags == {"builtin", "derivs", "printf_args", "texture_args", "rw"}

\* The effect of one metadata tag on the symbol table, for the function
\* declaration node fn with symbol fs
ApplyTag(tab, fn, fs, tag) ==
    CASE tag = "builtin" ->
            [tab EXCEPT
                ![fs].argcodes =
                    IF is_closure(tab[fs].typespec) THEN @ \o "." ELSE @,
                ![fs].readwrite_special_case =
                    IF \E k \in 1 .. Len(SiblingList(nodes, formals(fn))) :
                          nodes[SiblingList(nodes, formals(fn))[k]].isoutput
                    THEN TRUE ELSE @]
      [] tag = "derivs" -> [tab EXCEPT ![fs].takes_derivs = TRUE]
      [] tag = "printf_args" -> [tab EXCEPT ![fs].printf_args = TRUE]
      [] tag = "texture_args" -> [tab EXCEPT ![fs].texture_args = TRUE]
      [] tag = "rw" -> [tab EXCEPT ![fs].readwrite_special_case = TRUE]
      [] OTHER -> tab

RECURSIVE ApplyTags(_, _, _, _)
ApplyTags(tab, fn, fs, metas) ==
    IF metas = <<>> THEN tab
    ELSE ApplyTags(ApplyTag(tab, fn, fs, nodes[Head(metas)].name), fn, fs,
                   Tail(metas))

\* Releasing the last reference to a list of childless-or-literal-holding
\* nodes: each node of the list and its children are destroyed
RECURSIVE Release(_, _)
Release(heap, ids) ==
    IF ids = <<>> THEN heap
    ELSE LET n == Head(ids)
             kids == SelectSeq(heap[n].children, LAMBDA c : c # 0)
         IN Release([heap EXCEPT ![n].deleted = @ + 1, ![n].next = 0],
                    kids \o Tail(ids))

\* ASTfunction_declaration::add_meta(metaref) on node fn, metaref being the
\* list metas.  The function symbol is dereferenced for every known tag:
\* on a declaration that has no symbol that is a null dereference.  The
\* by-value metaref is the list's last reference and frees it on return.
add_meta(fn, metas) ==
    LET fs == nodes[fn].sym
        tags == {nodes[metas[k]].name : k \in 1 .. Len(metas)}
        isb == "builtin" \in tags
        heap == Release(Chain(nodes, metas), metas)
    IN /\ last' = [call |-> "add_meta", node |-> fn, metas |-> metas,
                   tags |-> tags, sym |-> fs, nbefore |-> Len(nodes),
                   tabbefore |-> syms]
       /\ IF fs = 0 /\ tags \cap KnownTags # {}
          THEN /\ crashed' = TRUE
               /\ UNCHANGED <<nodes, syms>>
          ELSE /\ crashed' = crashed
               /\ nodes' = [heap EXCEPT ![fn].is_builtin = @ \/ isb]
               /\ syms' = IF fs = 0 THEN syms
                          ELSE ApplyTags(syms, fn, fs, metas)

----------------------------------------------------------------------------
(* Specification SpecDecl: a parser that reduces declarations *)

\* init: "none", "literal" (= 0) or "initlist" ({ ... })
VarIn(name, type, isparam, isoutput, ismeta, init) ==
    [name |-> name, type |-> type, isparam |-> isparam,
     isoutput |-> isoutput, ismeta |-> ismeta, init |-> init,
     initlist |-> init = "initlist"]

\* The variable declarations the parser may reduce: parameters, output
\* parameters, locals and metadata, of names that do and do not clash,
\* of known, unknown and structure type, with and without initializer
VarInputs ==
    {VarIn("f", TypeInt, TRUE, FALSE, FALSE, "none"),
     VarIn("f", TypeInt, FALSE, FALSE, FALSE, "none"),
     VarIn("x", TypeInt, TRUE, FALSE, FALSE, "literal"),
     VarIn("x", TypeUnknown, TRUE, FALSE, FALSE, "none"),
     VarIn("x", TypeInt, TRUE, TRUE, FALSE, "none"),
     VarIn("___x", TypeInt, FALSE, FALSE, FALSE, "none"),
     VarIn("s", TypeStructArray, FALSE, FALSE, FALSE, "initlist"),
     VarIn("s", TypeStruct, TRUE, TRUE, FALSE, "none"),
     VarIn("__debug_tmp__s", TypeStructArray2, FALSE, FALSE, FALSE, "none"),
     VarIn("builtin", TypeInt, FALSE, FALSE, TRUE, "literal"),
     VarIn("f", TypeInt, FALSE, FALSE, TRUE, "literal")}

FuncNames == {"f", "x"}
FuncTypes == {TypeInt}

\* A function the compiler registered itself: int f(), with no node
BuiltinF ==
    [FunctionSymbol("f", TypeInt, 0) EXCEPT !.argcodes = "i", !.inserted = 1]

DeclNodes ==
    {n \in NodeIds : nodes[n].nodetype \in {"variable_declaration",
                                             "function_declaration"}}

\* What the parser holds that a later reduction consumes
PendingFormals ==
    {n \in Pending : /\ nodes[n].nodetype = "variable_declaration"
                     /\ nodes[n].isparam /\ ~nodes[n].ismeta}
PendingMeta ==
    {n \in Pending : /\ nodes[n].nodetype = "variable_declaration"
                     /\ nodes[n].ismeta}

InitDecl ==
    /\ nodes = <<>>
    /\ syms = <<BuiltinF>>
    /\ scopestack = <<0>>
    /\ nextscope = 1
    /\ diags = <<>>
    /\ extcalls = <<>>
    /\ last = NoCall
    /\ crashed = FALSE
    /\ dstack = <<>>
    /\ roots = {}
    /\ vec = <<>>

\* symtab().push(): the parser opens the scope of a function at the
\* global scope, when it has seen the function's name
PushScope ==
    /\ ~crashed
    /\ Cardinality(DeclNodes) < MaxDecls
    /\ last.call # "pop"
    /\ Len(scopestack) = 1
    /\ scopestack' = Append(scopestack, nextscope)
    /\ nextscope' = nextscope + 1
    /\ last' = [call |-> "push"]
    /\ UNCHANGED <<nodes, syms, diags, extcalls, crashed, dstack, roots, vec>>

\* symtab().pop(): the parser closes the function's scope when it has
\* seen the body or the semicolon, and then reduces the declaration
PopScope ==
    /\ ~crashed
    /\ Cardinality(DeclNodes) < MaxDecls
    /\ Len(scopestack) > 1
    /\ scopestack' = SubSeq(scopestack, 1, Len(scopestack) - 1)
    /\ last' = [call |-> "pop"]
    /\ UNCHANGED <<nodes, syms, nextscope, diags, extcalls, crashed, dstack,
                   roots, vec>>

\* The parser reduces a variable declaration, after its initializer if
\* it has one
VarDecl ==
    /\ ~crashed
    /\ Cardinality(DeclNodes) < MaxDecls
    /\ last.call # "pop"
    /\ \E in \in VarInputs :
        IF in.init = "none"
        THEN ASTvariable_declaration(nodes, in, 0)
        ELSE ASTvariable_declaration(
                 Append(nodes,
                        IF in.initlist
                        THEN ASTNode("compound_initializer", 0, <<0>>)
                        ELSE IntLiteral(0)),
                 in, Len(nodes) + 1)
    /\ UNCHANGED <<scopestack, nextscope, crashed, dstack, roots, vec>>

\* The parser reduces a function declaration over the pending formals,
\* with a body or as a prototype: it closes the function's scope, then
\* constructs the node
FuncDecl ==
    /\ ~crashed
    /\ Cardinality(DeclNodes) < MaxDecls
    /\ last.call = "pop"
    /\ \E type \in FuncTypes, name \in FuncNames, hasbody \in BOOLEAN :
        IF hasbody
        THEN ASTfunction_declaration(
                 Append(nodes, ASTNode("return_statement", 0, <<0>>)),
                 type, name, SeqOf(PendingFormals), <<Len(nodes) + 1>>)
        ELSE ASTfunction_declaration(nodes, type, name,
                                     SeqOf(PendingFormals), <<>>)
    /\ UNCHANGED <<scopestack, nextscope, crashed, dstack, roots, vec>>

\* The parser attaches the pending metadata to the function declaration
\* it has just reduced
AddMeta ==
    /\ ~crashed
    /\ last.call = "funcdecl"
    /\ PendingMeta # {}
    /\ add_meta(last.node, SeqOf(PendingMeta))
    /\ UNCHANGED <<scopestack, nextscope, diags, extcalls, dstack, roots, vec>>

NextDecl == PushScope \/ PopScope \/ VarDecl \/ FuncDecl \/ AddMeta

SpecDecl == InitDecl /\ [][NextDecl]_vars

----------------------------------------------------------------------------
(* Specification SpecMeta: a parser that reduces function prototypes with
   metadata *)

\* The formals and the metadata the parser may reduce inside the scope of
\* a function: a plain, an output and an unknown-typed formal, and one
\* metadata declaration of each tag, "help" standing for any other name
MetaTagNames ==
    {"builtin", "derivs", "printf_args", "texture_args", "rw", "help"}
MetaVarInputs ==
    {VarIn("x", TypeInt, TRUE, FALSE, FALSE, "none"),
     VarIn("x", TypeInt, TRUE, TRUE, FALSE, "none"),
     VarIn("x", TypeUnknown, TRUE, FALSE, FALSE, "none")}
    \cup {VarIn(tag, TypeInt, FALSE, FALSE, TRUE, "literal") :
             tag \in MetaTagNames}

\* The return types of the prototypes: a plain type and a closure
MetaFuncTypes == {TypeInt, TS("color", 0, TRUE, 0)}

\* The parser reduces a formal or a metadata declaration (with its value)
\* inside the function's scope
MetaVarDecl ==
    /\ ~crashed
    /\ Cardinality(DeclNodes) < MaxDecls
    /\ Len(scopestack) > 1
    /\ \E in \in MetaVarInputs :
        IF in.init = "none"
        THEN ASTvariable_declaration(nodes, in, 0)
        ELSE ASTvariable_declaration(Append(nodes, IntLiteral(0)), in,
                                     Len(nodes) + 1)
    /\ UNCHANGED <<scopestack, nextscope, crashed, dstack, roots, vec>>

\* The parser reduces the prototype of g over the pending formals
MetaFuncDecl ==
    /\ ~crashed
    /\ Cardinality(DeclNodes) < MaxDecls
    /\ last.call = "pop"
    /\ \E type \in MetaFuncTypes :
        ASTfunction_declaration(nodes, type, "g", SeqOf(PendingFormals),
                                <<>>)
    /\ UNCHANGED <<scopestack, nextscope, crashed, dstack, roots, vec>>

NextMeta ==
    PushScope \/ PopScope \/ MetaVarDecl \/ MetaFuncDecl \/ AddMeta

SpecMeta == InitDecl /\ [][NextMeta]_vars

----------------------------------------------------------------------------
(* Properties of declarations, checked under SpecDecl *)

\* The diagnostics the most recent constructor call emitted
NewDiags == SubSeq(diags, last.dbefore + 1, Len(diags))
NewOfKind(kind) == SelectSeq(NewDiags, LAMBDA d : d.kind = kind)

\* A message's list of previous locations is exactly one file:line
CitesLine(prev, line) == prev = <<[builtin |-> FALSE, line |-> line]>>

\* The severity C4 asks of a redeclaration that clash() found as f
C4_Severity(f) ==
    IF syms[f].scope = 0 /\ syms[f].symtype = "Function" /\ last.isparam
    THEN "warning" ELSE "error"

\* C4 (as claimed): a non-metadata variable declaration whose name clash()
\* finds draws exactly one redeclaration diagnostic, an error (a warning
\* when the found symbol is a function of scope 0 and the declaration is a
\* parameter), whose message includes the previous declaration's file and
\* line; no such diagnostic when clash() finds nothing or the declaration
\* is metadata.
C4_RedeclaredCitesLine ==
    last.call = "vardecl" =>
        IF last.clash # 0 /\ ~last.ismeta
        THEN /\ Len(NewOfKind("redeclared")) = 1
             /\ NewOfKind("redeclared")[1].sev = C4_Severity(last.clash)
             /\ \E line \in NodeIds :
                    CitesLine(NewOfKind("redeclared")[1].prev, line)
        ELSE NewOfKind("redeclared") = <<>>

\* C4 (amended): as claimed, except that the message includes the previous
\* declaration's file and line exactly when the found symbol has a
\* declaration node, and no location when it has none.
C4_RedeclaredDiagnostic ==
    last.call = "vardecl" =>
        IF last.clash # 0 /\ ~last.ismeta
        THEN /\ Len(NewOfKind("redeclared")) = 1
             /\ NewOfKind("redeclared")[1].sev = C4_Severity(last.clash)
             /\ NewOfKind("redeclared")[1].node = last.node
             /\ IF syms[last.clash].node # 0
                THEN CitesLine(NewOfKind("redeclared")[1].prev,
                               nodes[syms[last.clash].node].sourceline)
                ELSE NewOfKind("redeclared")[1].prev = <<>>
        ELSE NewOfKind("redeclared") = <<>>

\* A parameter redeclares, in one scope, a name whose first declaration
\* has a node: an error that cites the first declaration
C4_Witness ==
    /\ last.call = "vardecl"
    /\ last.clash # 0 /\ ~last.ismeta
    /\ syms[last.clash].node # 0
    /\ Len(NewOfKind("redeclared")) = 1
    /\ NewOfKind("redeclared")[1].sev = "error"
    /\ NewOfKind("redeclared")[1].prev # <<>>

\* Whether function symbol k has a declaration with a body, and whether
\* it is marked builtin (by its declaration's tag, or as a symbol the
\* compiler registered without any declaration)
HasBody(k) == syms[k].node # 0 /\ nodes[syms[k].node].children[3] # 0
MarkedBuiltin(k) == syms[k].node = 0 \/ nodes[syms[k].node].is_builtin

\* The earlier declarations of the name just declared whose signature
\* encoding and scope equal the new declaration's and that have a body or
\* are marked builtin
C5_Conflicts ==
    {k \in 1 .. last.sbefore :
        /\ syms[k].symtype = "Function" /\ syms[k].inserted > 0
        /\ syms[k].name = last.name
        /\ syms[k].scope = last.scope
        /\ syms[k].argcodes = ArgCodes(last.type, last.form)
        /\ (HasBody(k) \/ MarkedBuiltin(k))}

\* The entries of a list, as a set
Range(seq) == {seq[i] : i \in 1 .. Len(seq)}

\* C5 (as claimed): a function declaration that conflicts with earlier
\* declarations draws exactly one warning, never an error, that lists each
\* of them: by file:line, or as "built-in" when it has no body.
C5_RedefinedListsAll ==
    (last.call = "funcdecl" /\ C5_Conflicts # {}) =>
        /\ Len(NewOfKind("redefined")) = 1
        /\ NewOfKind("redefined")[1].sev = "warning"
        /\ Len(NewOfKind("redefined")[1].prev) = Cardinality(C5_Conflicts)
        /\ Range(NewOfKind("redefined")[1].prev) =
              {IF HasBody(k)
               THEN [builtin |-> FALSE,
                     line |-> nodes[syms[k].node].sourceline]
               ELSE [builtin |-> TRUE, line |-> 0] : k \in C5_Conflicts}

\* The conflicts the constructor looks at: those linked on the
\* polymorphic chain of the function that clash() returned
C5_ChainConflicts ==
    IF last.stmts = 0 \/ last.clash = 0
       \/ syms[last.clash].symtype # "Function"
    THEN {}
    ELSE C5_Conflicts \cap Range(PolyChain(last.clash))

\* C5 (amended): a function declaration that has a body and conflicts
\* with earlier declarations linked on the polymorphic chain clash()
\* returned draws exactly one warning, never an error, that lists each of
\* them: by file:line when it has a declaration node, as "built-in" when
\* it has none.  A prototype, or a declaration without such a conflict,
\* draws no such warning.
C5_RedefinedWarning ==
    last.call = "funcdecl" =>
        IF C5_ChainConflicts # {}
        THEN /\ Len(NewOfKind("redefined")) = 1
             /\ NewOfKind("redefined")[1].sev = "warning"
             /\ Len(NewOfKind("redefined")[1].prev)
                   = Cardinality(C5_ChainConflicts)
             /\ Range(NewOfKind("redefined")[1].prev) =
                   {IF syms[k].node # 0
                    THEN [builtin |-> FALSE,
                          line |-> nodes[syms[k].node].sourceline]
                    ELSE [builtin |-> TRUE, line |-> 0] :
                        k \in C5_ChainConflicts}
        ELSE NewOfKind("redefined") = <<>>

\* A definition with a body repeats a built-in and an earlier definition:
\* one warning that lists both
C5_Witness ==
    /\ last.call = "funcdecl"
    /\ Len(NewOfKind("redefined")) = 1
    /\ Len(NewOfKind("redefined")[1].prev) = 2
    /\ \E i, j \in 1 .. 2 :
          /\ NewOfKind("redefined")[1].prev[i].builtin
          /\ ~NewOfKind("redefined")[1].prev[j].builtin

\* Declaration nodes that are alive, by kind
LiveDecls(nodetype) ==
    {n \in NodeIds : nodes[n].nodetype = nodetype /\ nodes[n].deleted = 0}
SymbolsOf(n) == {k \in 1 .. Len(syms) : syms[k].node = n}

\* Node n has exactly one symbol record, inserted `times` times
OneSymbol(n, times) ==
    /\ nodes[n].sym # 0
    /\ SymbolsOf(n) = {nodes[n].sym}
    /\ syms[nodes[n].sym].inserted = times

\* C7 (as claimed): every function declaration node and every
\* non-metadata variable declaration node has exactly one symbol record,
\* inserted in the table exactly once; every metadata variable declaration
\* has exactly one, owned by the node and never inserted.
C7_OneSymbolPerDecl ==
    /\ \A n \in LiveDecls("function_declaration") : OneSymbol(n, 1)
    /\ \A n \in LiveDecls("variable_declaration") :
          IF nodes[n].ismeta
          THEN OneSymbol(n, 0) /\ nodes[n].sym_owned
          ELSE OneSymbol(n, 1) /\ ~nodes[n].sym_owned

\* Whether a function declaration has a formal of unknown type
HasUnknownFormal(n) ==
    \E k \in 1 .. Len(SiblingList(nodes, formals(n))) :
        is_unknown(nodes[SiblingList(nodes, formals(n))[k]].typespec)

\* Every declaration other than a function declaration with a formal of
\* unknown type has its one symbol; such a function declaration has none.
OneSymbolUnlessUnknownFormal ==
    /\ \A n \in LiveDecls("function_declaration") :
          IF HasUnknownFormal(n)
          THEN nodes[n].sym = 0 /\ SymbolsOf(n) = {}
          ELSE OneSymbol(n, 1)
    /\ \A n \in LiveDecls("variable_declaration") :
          IF nodes[n].ismeta
          THEN OneSymbol(n, 0) /\ nodes[n].sym_owned
          ELSE OneSymbol(n, 1) /\ ~nodes[n].sym_owned

\* The calls out of the most recent constructor call to typecheck()
NewTypechecks ==
    {k \in last.xbefore + 1 .. Len(extcalls) :
        extcalls[k].fn = "typecheck" /\ extcalls[k].node = last.node}

\* C11: each construction of a function declaration node invokes
\* typecheck exactly once before the constructor returns, whatever the
\* types of its formals and whatever diagnostics were emitted.
C11_TypecheckedOnConstruction ==
    last.call = "funcdecl" => Cardinality(NewTypechecks) = 1

\* A function declaration is type-checked once unless a formal is of
\* unknown type, and then not at all
TypecheckedUnlessUnknownFormal ==
    last.call = "funcdecl" =>
        Cardinality(NewTypechecks) = (IF last.early THEN 0 ELSE 1)

\* The symbol of the declaration just constructed is the one an
\* error-free declaration makes, and the name now resolves to it
DeclaredAs(symtype) ==
    /\ nodes[last.node].sym # 0
    /\ syms[nodes[last.node].sym].name = last.name
    /\ syms[nodes[last.node].sym].typespec = last.type
    /\ syms[nodes[last.node].sym].symtype = symtype
    /\ syms[nodes[last.node].sym].node = last.node
    /\ syms[nodes[last.node].sym].scope = last.scope
    /\ SymFind(last.name) = nodes[last.node].sym

\* C12: a diagnostic never skips the symbol-table update of the
\* declaration that drew it: a variable declaration that draws the
\* redeclaration diagnostic or the three-underscore error still creates and
\* inserts its symbol as an error-free declaration would, and a function
\* declaration that draws the non-function clash error or the redefinition
\* warning still inserts its function symbol, to which the name resolves.
C12_DiagnosticKeepsInsertion ==
    /\ (/\ last.call = "vardecl" /\ ~last.ismeta
        /\ NewOfKind("redeclared") \o NewOfKind("underscores") # <<>>)
          => /\ OneSymbol(last.node, 1)
             /\ DeclaredAs(VarSymType(last.name, last.isparam, last.isoutput))
    /\ (/\ last.call = "funcdecl"
        /\ NewOfKind("already_declared_as") \o NewOfKind("redefined") # <<>>)
          => /\ OneSymbol(last.node, 1)
             /\ DeclaredAs("Function")

\* The same, for the function declarations whose formals are all of known
\* type
InsertionKeptUnlessUnknownFormal ==
    /\ (/\ last.call = "vardecl" /\ ~last.ismeta
        /\ NewOfKind("redeclared") \o NewOfKind("underscores") # <<>>)
          => /\ OneSymbol(last.node, 1)
             /\ DeclaredAs(VarSymType(last.name, last.isparam, last.isoutput))
    /\ (/\ last.call = "funcdecl" /\ ~last.early
        /\ NewOfKind("already_declared_as") \o NewOfKind("redefined") # <<>>)
          => /\ OneSymbol(last.node, 1)
             /\ DeclaredAs("Function")

\* Whether clash() returned a symbol that is not a function
ClashNotFunction ==
    last.clash # 0 /\ syms[last.clash].symtype # "Function"

\* C14: every constructed function declaration has a symbol whose
\* next-overload link is the symbol clash(name) returned just before the
\* insertion when that is a function, and none otherwise; when clash
\* returned a symbol that is not a function, exactly one 'already declared'
\* error is emitted and that symbol is not on the new function's chain.
C14_NextPolyLink ==
    last.call = "funcdecl" =>
        /\ nodes[last.node].sym # 0
        /\ syms[nodes[last.node].sym].nextpoly =
              (IF last.clash # 0 /\ ~ClashNotFunction
               THEN last.clash ELSE 0)
        /\ ClashNotFunction =>
              /\ Len(NewOfKind("already_declared_as")) = 1
              /\ last.clash \notin
                    Range(PolyChain(syms[nodes[last.node].sym].nextpoly))

\* The same, for the declarations that have a symbol: those whose formals
\* are all of known type.  The 'already declared' error is emitted in
\* either case.
NextPolyLinkUnlessUnknownFormal ==
    last.call = "funcdecl" =>
        /\ nodes[last.node].sym # 0 <=> ~last.early
        /\ nodes[last.node].sym # 0 =>
              /\ syms[nodes[last.node].sym].nextpoly =
                    (IF last.clash # 0 /\ ~ClashNotFunction
                     THEN last.clash ELSE 0)
              /\ ClashNotFunction =>
                    last.clash \notin
                        Range(PolyChain(syms[nodes[last.node].sym].nextpoly))
        /\ ClashNotFunction => Len(NewOfKind("already_declared_as")) = 1

\* The 'may not have a default initializer' errors the most recent
\* constructor call emitted on formal n
NewDefaultInitErrors(n) ==
    SelectSeq(NewDiags, LAMBDA d : /\ d.kind = "default_initializer"
                                   /\ d.sev = "error" /\ d.node = n)

\* C15: constructing a function declaration emits one error for every
\* formal that carries a default initializer, whatever the position of that
\* formal in the list and whatever the types of the other formals.
C15_DefaultInitializerErrors ==
    last.call = "funcdecl" =>
        \A k \in 1 .. Len(last.form) :
            Len(NewDefaultInitErrors(last.form[k])) =
                (IF nodes[last.form[k]].children[1] # 0 THEN 1 ELSE 0)

\* The same, for the formals that precede the first one of unknown type;
\* the formals from that one on draw no error
DefaultInitializerErrorsOfScanned ==
    last.call = "funcdecl" =>
        \A k \in 1 .. Len(last.form) :
            Len(NewDefaultInitErrors(last.form[k])) =
                (IF /\ nodes[last.form[k]].children[1] # 0
                    /\ \A j \in 1 .. k : ~is_unknown(nodes[last.form[j]].typespec)
                 THEN 1 ELSE 0)

----------------------------------------------------------------------------
(* Shader declarations: ASTshader_declaration *)

\* Shader parameters per shader the parser is driven through
MaxFormals == 3

\* The errors the constructor's loop reports on one formal v
ShaderFormalDiags(v) ==
    (IF nodes[v].children[1] = 0
     THEN <<Diag("error", "requires_initializer", v, nodes[v].name, <<>>)>>
     ELSE <<>>)
    \o (IF nodes[v].isoutput /\ is_unsized_array(nodes[v].typespec)
        THEN <<Diag("error", "output_unsized_array", v, nodes[v].name,
                    <<>>)>>
        ELSE <<>>)

\* for (ASTNode* arg = form; arg; arg = arg->nextptr()): every formal
RECURSIVE ShaderDiags_StopAtFirstMutant(_)
ShaderDiags_StopAtFirstMutant(form) ==
    IF form = <<>> THEN <<>>
    ELSE IF ShaderFormalDiags(Head(form)) # <<>>
    THEN ShaderFormalDiags(Head(form))
    ELSE ShaderDiags_StopAtFirstMutant(Tail(form))
RECURSIVE ShaderDiags(_)
ShaderDiags(form) ==
    IF form = <<>> THEN <<>>
    ELSE ShaderFormalDiags(Head(form)) \o ShaderDiags(Tail(form))

\* ASTshader_declaration(comp, stype, name, form, stmts, meta), with form
\* and the body given as the lists of nodes the parser has sibling-linked
ASTshader_declaration(heap0, stype, name, form, body) ==
    LET new == Len(heap0) + 1
        heap == AddRefs(Chain(Chain(heap0, form), body),
                        <<ListHead(form), ListHead(body)>>)
        nd == [ASTNode("shader_declaration", stype,
                       <<0, ListHead(form), ListHead(body)>>) EXCEPT
                  !.name = name, !.sourceline = new]
    IN /\ nodes' = Append(heap, nd)
       /\ diags' = diags \o ShaderDiags(form)
       /\ last' = [call |-> "shaderdecl", node |-> new, name |-> name,
                   form |-> form, stmts |-> ListHead(body),
                   dbefore |-> Len(diags), nbefore |-> Len(nodes)]
       /\ UNCHANGED <<syms, extcalls>>

(* Specification SpecShader: a parser that reduces one shader *)

TypeFloatUnsized == TS("float", -1, FALSE, 0)

\* The shader parameters the parser may reduce: with and without default,
\* output and not, unsized array and not
ShaderInputs ==
    {VarIn("a", TypeFloat, TRUE, FALSE, FALSE, "literal"),
     VarIn("b", TypeFloat, TRUE, FALSE, FALSE, "none"),
     VarIn("c", TypeFloatUnsized, TRUE, TRUE, FALSE, "initlist"),
     VarIn("d", TypeFloatUnsized, TRUE, TRUE, FALSE, "none"),
     VarIn("e", TypeFloatUnsized, TRUE, FALSE, FALSE, "initlist"),
     VarIn("g", TypeInt, TRUE, TRUE, FALSE, "literal")}

ShaderTypes == {"surface", "shader"}

\* The parser has seen the shader's type and name and opened its scope
InitShader ==
    /\ nodes = <<>>
    /\ syms = <<>>
    /\ scopestack = <<0, 1>>
    /\ nextscope = 2
    /\ diags = <<>>
    /\ extcalls = <<>>
    /\ last = NoCall
    /\ crashed = FALSE
    /\ dstack = <<>>
    /\ roots = {}
    /\ vec = <<>>

\* The parser reduces one more shader parameter
ShaderFormal ==
    /\ last.call # "shaderdecl"
    /\ Cardinality(PendingFormals) < MaxFormals
    /\ \E in \in ShaderInputs :
        IF in.init = "none"
        THEN ASTvariable_declaration(nodes, in, 0)
        ELSE ASTvariable_declaration(
                 Append(nodes,
                        IF in.initlist
                        THEN ASTNode("compound_initializer", 0, <<0>>)
                        ELSE IntLiteral(0)),
                 in, Len(nodes) + 1)
    /\ UNCHANGED <<scopestack, nextscope, crashed, dstack, roots, vec>>

\* The parser reduces the shader declaration over the pending formals
ShaderDecl ==
    /\ last.call # "shaderdecl"
    /\ \E stype \in ShaderTypes, hasbody \in BOOLEAN :
        IF hasbody
        THEN ASTshader_declaration(
                 Append(nodes, ASTNode("return_statement", 0, <<0>>)),
                 stype, "sh", SeqOf(PendingFormals), <<Len(nodes) + 1>>)
        ELSE ASTshader_declaration(nodes, stype, "sh",
                                   SeqOf(PendingFormals), <<>>)
    /\ UNCHANGED <<scopestack, nextscope, crashed, dstack, roots, vec>>

NextShader == ShaderFormal \/ ShaderDecl

SpecShader == InitShader /\ [][NextShader]_vars

(* Properties of shader declarations, checked under SpecShader *)

\* The errors of one kind the most recent constructor call emitted that
\* name formal v
NewNaming(kind, v) ==
    SelectSeq(NewDiags, LAMBDA d : /\ d.kind = kind /\ d.sev = "error"
                                   /\ d.node = v /\ d.name = nodes[v].name)

\* C13: constructing a shader declaration emits, for every formal without
\* an initializer, one error naming it, and for every output formal of
\* unsized array type one separate error naming it; every formal of the
\* list is checked, a formal with both defects draws both, and nothing
\* else is emitted (so a shader without such formals draws none).
C13_ShaderFormalErrors ==
    last.call = "shaderdecl" =>
        /\ \A k \in 1 .. Len(last.form) :
              /\ Len(NewNaming("requires_initializer", last.form[k])) =
                    (IF nodes[last.form[k]].children[1] = 0 THEN 1 ELSE 0)
              /\ Len(NewNaming("output_unsized_array", last.form[k])) =
                    (IF /\ nodes[last.form[k]].isoutput
                        /\ nodes[last.form[k]].typespec.arr < 0
                     THEN 1 ELSE 0)
        /\ \A i \in 1 .. Len(NewDiags) :
              /\ NewDiags[i].kind \in {"requires_initializer",
                                       "output_unsized_array"}
              /\ NewDiags[i].node \in Range(last.form)
              /\ NewDiags[i].name = nodes[NewDiags[i].node].name

\* A shader whose first formal lacks an initializer and whose last formal
\* is an unsized output array without one: three errors
C13_Witness ==
    /\ last.call = "shaderdecl"
    /\ Len(last.form) = 3
    /\ nodes[last.form[1]].children[1] = 0
    /\ nodes[last.form[3]].children[1] = 0
    /\ nodes[last.form[3]].isoutput
    /\ nodes[last.form[3]].typespec.arr < 0
    /\ Len(NewNaming("requires_initializer", last.form[1])) = 1
    /\ Len(NewNaming("requires_initializer", last.form[3])) = 1
    /\ Len(NewNaming("output_unsized_array", last.form[3])) = 1

----------------------------------------------------------------------------
(* References and access: ASTvariable_ref, ASTindex, ASTstructselect *)

TypeColor == TS("color", 0, FALSE, 0)
TypeColorArray == TS("color", 2, FALSE, 0)
TypePoint == TS("point", 0, FALSE, 0)
TypeMatrix == TS("matrix", 0, FALSE, 0)
TypeMatrixArray == TS("matrix", 2, FALSE, 0)
TypeClosureColor == TS("color", 0, TRUE, 0)
TypeInner == TS("struct", 0, FALSE, 2)

\* The StructSpec of a structure type: its fields in order
\*   struct (id 1) { float m; inner in; }    inner (id 2) { color c; }
StructFields(structid) ==
    IF structid = 1
    THEN <<[name |-> "m", type |-> TypeFloat],
           [name |-> "in", type |-> TypeInner]>>
    ELSE <<[name |-> "c", type |-> TypeColor]>>

\* structspec->name()
StructName(structid) == IF structid = 1 THEN "S" ELSE "inner"

\* One reference fewer on each node of ids; a node nothing references any
\* more is destroyed and lets go of its children
RECURSIVE DropRefs(_, _)
DropRefs(heap, ids) ==
    IF ids = <<>> THEN heap
    ELSE LET n == Head(ids)
         IN IF n = 0 THEN DropRefs(heap, Tail(ids))
            ELSE IF heap[n].refs > 1
            THEN DropRefs([heap EXCEPT ![n].refs = @ - 1], Tail(ids))
            ELSE DropRefs([heap EXCEPT ![n].refs = 0, ![n].deleted = @ + 1,
                                       ![n].children = <<>>],
                          heap[n].children \o Tail(ids))

\* What a constructor yields: the heap with the new node(s), the id of the
\* constructed node and the diagnostics it emitted
Built(heap, id, errs) == [heap |-> heap, id |-> id, errs |-> errs]

\* The error a reference draws when the name is of a kind that is no
\* value: a function or a type; "" for a value
WrongKind_TypeIsValueMutant(symtype) ==
    IF symtype = "Function" THEN "function_as_variable" ELSE ""
WrongKind(symtype) ==
    IF symtype = "Function" THEN "function_as_variable"
    ELSE IF symtype = "Type" THEN "type_as_variable"
    ELSE ""

\* ASTvariable_ref(comp, name)
ASTvariable_ref(heap0, name) ==
    LET new == Len(heap0) + 1
        sym == SymFind(name)
        nd == [ASTNode("variable_ref", 0, <<>>) EXCEPT
                  !.name = name, !.sym = sym, !.sourceline = new]
    IN IF sym = 0
       THEN Built(Append(heap0, nd), new,
                  <<Diag("error", "not_declared", new, name, <<>>)>>)
       ELSE IF WrongKind(syms[sym].symtype) # ""
       THEN Built(Append(heap0, nd), new,
                  <<Diag("error", WrongKind(syms[sym].symtype), new, name,
                         <<>>)>>)
       ELSE Built(Append(heap0, [nd EXCEPT !.typespec = syms[sym].typespec]),
                  new, <<>>)

\* The type table of ASTindex: base type and number of indices
IndexType_NoTripleArrayMutant(bt, nidx) ==
    CASE nidx = 1 ->
            IF is_array(bt) THEN elementtype(bt)
            ELSE IF ~is_closure(bt) /\ is_triple(bt) THEN TypeFloat
            ELSE TypeUnknown
      [] nidx = 2 -> IF is_matrix(bt) THEN TypeFloat ELSE TypeUnknown
      [] OTHER ->
            IF is_array(bt) /\ is_matrix(elementtype(bt)) THEN TypeFloat
            ELSE TypeUnknown
IndexType(bt, nidx) ==
    CASE nidx = 1 ->
            IF is_array(bt) THEN elementtype(bt)
            ELSE IF ~is_closure(bt) /\ is_triple(bt) THEN TypeFloat
            ELSE TypeUnknown
      [] nidx = 2 ->
            IF is_matrix(bt) THEN TypeFloat
            ELSE IF is_array(bt) /\ is_triple(elementtype(bt)) THEN TypeFloat
            ELSE TypeUnknown
      [] OTHER ->
            IF is_array(bt) /\ is_matrix(elementtype(bt)) THEN TypeFloat
            ELSE TypeUnknown

\* Whether the constructor rearranges: one index over an index node that
\* holds a base and one index
Flattens_NeverMutant(heap0, expr, idxs) == FALSE
Flattens(heap0, expr, idxs) ==
    /\ Len(idxs) = 1
    /\ heap0[expr].nodetype = "index"
    /\ Len(heap0[expr].children) = 2

\* The children the index node ends with
IndexChildren_KeepNestedMutant(heap0, expr, idxs) ==
    IF Flattens(heap0, expr, idxs)
    THEN <<expr, heap0[expr].children[2], idxs[1]>>
    ELSE <<expr>> \o idxs
IndexChildren(heap0, expr, idxs) ==
    IF Flattens(heap0, expr, idxs)
    THEN <<heap0[expr].children[1], heap0[expr].children[2], idxs[1]>>
    ELSE <<expr>> \o idxs

\* ASTindex(comp, expr, index, index2, index3), idxs being the indices
\* given.  The base constructor takes expr and the indices as children;
\* the rearrangement takes references to the new children, clears the
\* children and adds the new ones.
ASTindex(heap0, expr, idxs) ==
    LET new == Len(heap0) + 1
        kids == IndexChildren(heap0, expr, idxs)
        held == AddRefs(heap0, <<expr>> \o idxs)
        heap == IF Flattens(heap0, expr, idxs)
                THEN DropRefs(AddRefs(held, kids), <<expr>> \o idxs)
                ELSE held
        typ == IndexType(heap0[kids[1]].typespec, Len(kids) - 1)
        nd == [ASTNode("index", 0, kids) EXCEPT
                  !.typespec = typ, !.sourceline = new, !.refs = 0]
    IN Built(Append(heap, nd), new,
             IF is_unknown(typ)
             THEN <<Diag("error", "bad_index", new, "", <<>>)>>
             ELSE <<>>)

\* The component a field name selects by sugar on a base of type lvtype:
\* r, g, b on a color and x, y, z on a point, vector or normal; -1 if none
SugarComponent_CrossMutant(lvtype, field) ==
    IF is_triple(lvtype) /\ field \in {"r", "g", "b", "x", "y", "z"}
    THEN (IF field \in {"r", "x"} THEN 0
          ELSE IF field \in {"g", "y"} THEN 1 ELSE 2)
    ELSE -1
SugarComponent(lvtype, field) ==
    IF is_color(lvtype) /\ field \in {"r", "g", "b"}
    THEN (IF field = "r" THEN 0 ELSE IF field = "g" THEN 1 ELSE 2)
    ELSE IF is_vectriple(lvtype) /\ field \in {"x", "y", "z"}
    THEN (IF field = "x" THEN 0 ELSE IF field = "y" THEN 1 ELSE 2)
    ELSE -1

\* find_structsym: name and type of the symbol of the struct that
\* structnode denotes (a variable, a field of a struct, an array element)
RECURSIVE find_structsym(_, _)
find_structsym(heap, structnode) ==
    CASE heap[structnode].nodetype = "variable_ref" ->
            [name |-> heap[structnode].name,
             type |-> heap[structnode].typespec]
      [] heap[structnode].nodetype = "structselect" ->
            [name |-> syms[heap[structnode].sym].name,
             type |-> syms[heap[structnode].sym].typespec]
      [] OTHER ->
            LET r == find_structsym(heap, heap[structnode].children[1])
            IN [name |-> r.name, type |-> elementtype(r.type)]

\* The position of the field called field in the struct, -1 if none
FieldId_AlwaysFoundMutant(structid, field) == 0
FieldId(structid, field) ==
    IF \E i \in 1 .. Len(StructFields(structid)) :
          StructFields(structid)[i].name = field
    THEN (CHOOSE i \in 1 .. Len(StructFields(structid)) :
             StructFields(structid)[i].name = field) - 1
    ELSE -1

\* ASTstructselect(comp, expr, field): the node, then find_fieldsym
ASTstructselect(heap0, expr, field) ==
    LET new == Len(heap0) + 1
        lvtype == heap0[expr].typespec
        comp == SugarComponent(lvtype, field)
        nd == [ASTNode("structselect", 0, <<expr>>) EXCEPT
                  !.name = field, !.sourceline = new]
        heap1 == Append(AddRefs(heap0, <<expr>>), nd)
        idx == ASTindex(Append(heap1, IntLiteral(comp)), expr, <<new + 1>>)
        ss == find_structsym(heap0, expr)
        sym == SymFind(ss.name \o "." \o field)
    IN IF comp >= 0
       THEN Built([idx.heap EXCEPT ![new].compindex = idx.id,
                                   ![new].is_lvalue = TRUE,
                                   ![new].typespec = TypeFloat,
                                   ![idx.id].refs = @ + 1],
                  new, idx.errs)
       ELSE IF ~is_structure(lvtype) /\ ~is_structure_array(lvtype)
       THEN Built(heap1, new,
                  <<Diag("error", "no_member", new, field, <<>>)>>)
       ELSE IF FieldId(ss.type.structid, field) < 0
       THEN Built(heap1, new,
                  <<Diag("error", "no_struct_member", new,
                         StructName(ss.type.structid), <<>>)>>)
       ELSE IF sym = 0 THEN Built(heap1, new, <<>>)
       ELSE Built([heap1 EXCEPT ![new].sym = sym,
                                ![new].typespec = syms[sym].typespec],
                  new, <<>>)

\* lvalue() of an index or struct-select node: its first child
lvalue(heap, n) == heap[n].children[1]

\* check_symbol_writeability(var, quiet, dest_sym): the result, the
\* diagnostics, and what *dest_sym holds on return (0 = nullptr).  The
\* recursive calls through index and struct-select pass neither quiet nor
\* dest_sym on.
RECURSIVE check_symbol_writeability(_, _, _, _)
check_symbol_writeability(heap, from, var, quiet) ==
    IF heap[var].nodetype \in {"index", "structselect"}
    THEN [check_symbol_writeability(heap, from, lvalue(heap, var), FALSE)
             EXCEPT !.dest_sym = 0]
    ELSE LET dest == IF heap[var].nodetype \in {"variable_ref",
                                                 "variable_declaration"}
                     THEN heap[var].sym ELSE 0
         IN IF dest # 0 /\ syms[dest].readonly
            THEN [ok |-> FALSE, dest_sym |-> dest,
                  errs |-> IF quiet THEN <<>>
                           ELSE <<Diag("warning", "readonly_write", from,
                                       syms[dest].name, <<>>)>>]
            ELSE [ok |-> TRUE, dest_sym |-> dest, errs |-> <<>>]

\* The children of the assignment once a compound operator has been
\* rewritten: m_children[1] becomes the new binary expression bin
RewrittenChildren_NoRewriteMutant(var, op, expr, bin) == <<var, expr>>
RewrittenChildren(var, op, expr, bin) ==
    IF op = "Assign" THEN <<var, expr>> ELSE <<var, bin>>

\* ASTassign_expression(comp, var, op, expr)
ASTassign_expression(heap0, var, op, expr) ==
    LET new == Len(heap0) + 1
        bin == [ASTbinary_expression(op, var, expr) EXCEPT
                   !.sourceline = new + 1, !.refs = 1]
        nd == [ASTNode("assign_expression", "Assign", <<var, expr>>) EXCEPT
                  !.sourceline = new]
        heap1 == Append(AddRefs(heap0, <<var, expr>>), nd)
        heap2 == IF op = "Assign" THEN heap1
                 ELSE [Append(DropRefs(AddRefs(heap1, <<var, expr>>),
                                       <<expr>>), bin)
                          EXCEPT ![new].children =
                                     RewrittenChildren(var, op, expr, new + 1)]
    IN Built(heap2, new,
             check_symbol_writeability(heap2, new, var, FALSE).errs)

\* ASTpreincdec(comp, op, expr) and ASTpostincdec(comp, op, expr)
ASTincdec(heap0, nodetype, op, expr) ==
    LET new == Len(heap0) + 1
        nd == [ASTNode(nodetype, op, <<expr>>) EXCEPT !.sourceline = new]
        heap1 == Append(AddRefs(heap0, <<expr>>), nd)
    IN Built(heap1, new,
             check_symbol_writeability(heap1, new, expr, FALSE).errs)

----------------------------------------------------------------------------
(* Specification SpecTree: a parser that reduces lvalues and writes *)

\* A symbol of the global scope that is in the table
Declared(name, typespec, symtype, readonly) ==
    [Symbol(name, typespec, symtype, 0) EXCEPT
        !.inserted = 1, !.readonly = readonly]

\* The table the expressions are resolved against: a read-only array
\* parameter, a read-only symbol that is no parameter, a struct variable
\* and the symbols of its fields, an array of structs and the symbols of
\* its fields, a point, a matrix, an array of matrices,
\* a closure, a function and a type name
TreeSymbols ==
    <<Declared("ca", TypeColorArray, "Param", TRUE),
      Declared("k", TypeColor, "Global", TRUE),
      Declared("s", TypeStruct, "Local", FALSE),
      Declared("s.m", TypeFloat, "Local", FALSE),
      Declared("s.in", TypeInner, "Local", FALSE),
      Declared("s.in.c", TypeColor, "Local", FALSE),
      Declared("sa", TypeStructArray, "Local", FALSE),
      Declared("sa.m", TS("float", -1, FALSE, 0), "Local", FALSE),
      Declared("sa.in", TS("struct", -1, FALSE, 2), "Local", FALSE),
      Declared("sa.in.c", TS("color", -1, FALSE, 0), "Local", FALSE),
      Declared("p", TypePoint, "Local", FALSE),
      Declared("mx", TypeMatrix, "Local", FALSE),
      Declared("ma", TypeMatrixArray, "Local", FALSE),
      Declared("cc", TypeClosureColor, "Local", FALSE),
      Declared("fn", TypeInt, "Function", FALSE),
      Declared("T", TypeStruct, "Type", FALSE)>>

\* Names the parser may reference ("u" is declared nowhere) and fields
\* it may select
RefNames == {"ca", "k", "s", "sa", "u", "p", "mx", "ma", "cc", "fn", "T"}
FieldNames == {"r", "b", "y", "in", "c"}
IndexCounts == {1, 2, 3}
AssignOps == {"Assign", "Add"}
IncDecOps == {"Incr", "Decr"}

\* Live nodes that nothing holds: neither a parent nor a struct-select
\* that keeps them as its component index
TreeRoots ==
    {n \in NodeIds :
        /\ nodes[n].deleted = 0
        /\ Parents(nodes, n) = {}
        /\ \A p \in NodeIds :
              nodes[p].deleted = 0 => nodes[p].compindex # n}
TopTree == CHOOSE n \in TreeRoots : \A m \in TreeRoots : m <= n

\* The parser has an lvalue on top of its stack
LvalueOnTop ==
    /\ TreeRoots # {}
    /\ nodes[TopTree].nodetype \in {"variable_ref", "index", "structselect"}

InitTree ==
    /\ nodes = <<>>
    /\ syms = TreeSymbols
    /\ scopestack = <<0>>
    /\ nextscope = 1
    /\ diags = <<>>
    /\ extcalls = <<>>
    /\ last = NoCall
    /\ crashed = FALSE
    /\ dstack = <<>>
    /\ roots = {}
    /\ vec = <<>>

\* What a constructor call of the tree driver records
TreeCall(call, b, arg) ==
    [call |-> call, node |-> b.id, arg |-> arg,
     operand |-> IF TreeRoots = {} THEN 0 ELSE TopTree,
     okids |-> IF TreeRoots = {} THEN <<>> ELSE nodes[TopTree].children,
     dbefore |-> Len(diags), nbefore |-> Len(nodes)]

\* The state after a constructor has run
Construct(call, b, arg) ==
    /\ nodes' = b.heap
    /\ diags' = diags \o b.errs
    /\ last' = TreeCall(call, b, arg)
    /\ UNCHANGED <<syms, scopestack, nextscope, extcalls, crashed, dstack,
                   roots, vec>>

\* n new int literals on the heap: index expressions, a right-hand side
RECURSIVE WithLiterals(_, _)
WithLiterals(heap, n) ==
    IF n = 0 THEN heap ELSE WithLiterals(Append(heap, IntLiteral(0)), n - 1)

\* The parser reduces an identifier: the innermost base of an lvalue
VarRef ==
    /\ nodes = <<>>
    /\ \E name \in RefNames :
          Construct("varref", ASTvariable_ref(nodes, name), name)

\* The parser reduces lvalue [ i ], lvalue [ i ][ j ], lvalue [ i ][ j ][ k ]
Index ==
    /\ Len(nodes) < MaxTreeNodes
    /\ LvalueOnTop
    /\ \E n \in IndexCounts :
          Construct("index",
                    ASTindex(WithLiterals(nodes, n), TopTree,
                             [i \in 1 .. n |-> Len(nodes) + i]), n)

\* The parser reduces lvalue . field
StructSelect ==
    /\ Len(nodes) < MaxTreeNodes
    /\ LvalueOnTop
    /\ \E field \in FieldNames :
          Construct("structselect", ASTstructselect(nodes, TopTree, field),
                    field)

\* The parser reduces lvalue = 0 or lvalue += 0: the statement is complete
Assign ==
    /\ LvalueOnTop
    /\ \E op \in AssignOps :
          Construct("assign",
                    ASTassign_expression(WithLiterals(nodes, 1), TopTree, op,
                                         Len(nodes) + 1), op)

\* The parser reduces ++lvalue or --lvalue
PreIncDec ==
    /\ LvalueOnTop
    /\ \E op \in IncDecOps :
          Construct("preincdec", ASTincdec(nodes, "preincdec", op, TopTree),
                    op)

\* The parser reduces lvalue++ or lvalue--
PostIncDec ==
    /\ LvalueOnTop
    /\ \E op \in IncDecOps :
          Construct("postincdec",
                    ASTincdec(nodes, "postincdec", op, TopTree), op)

NextTree ==
    VarRef \/ Index \/ StructSelect \/ Assign \/ PreIncDec \/ PostIncDec

SpecTree == InitTree /\ [][NextTree]_vars

----------------------------------------------------------------------------
(* Specification SpecWrite: a caller that asks whether the lvalue it holds
   may be written to *)

\* check_symbol_writeability(var, quiet, &sym) or, without the third
\* argument, check_symbol_writeability(var, quiet), called once on the
\* lvalue the parser has just built
CheckWriteability ==
    /\ LvalueOnTop
    /\ last.call \in {"varref", "index", "structselect"}
    /\ \E quiet \in BOOLEAN, wantsym \in BOOLEAN :
        LET r == check_symbol_writeability(nodes, TopTree, TopTree, quiet)
        IN /\ diags' = diags \o r.errs
           /\ last' = [call |-> "check_symbol_writeability",
                       var |-> TopTree, quiet |-> quiet,
                       wantsym |-> wantsym, ok |-> r.ok,
                       dest_sym |-> IF wantsym THEN r.dest_sym ELSE 0,
                       dbefore |-> Len(diags)]
    /\ UNCHANGED <<nodes, syms, scopestack, nextscope, extcalls, crashed,
                   dstack, roots, vec>>

NextWrite == VarRef \/ Index \/ StructSelect \/ CheckWriteability

SpecWrite == InitTree /\ [][NextWrite]_vars

----------------------------------------------------------------------------
(* Properties of references, accesses and writes, checked under SpecTree *)

\* The node an lvalue bottoms out in, through index and struct-select
RECURSIVE Underlying(_)
Underlying(n) ==
    IF nodes[n].nodetype \in {"index", "structselect"}
    THEN Underlying(nodes[n].children[1]) ELSE n

\* The symbol the most recent write is to (0 when there is none)
WrittenSym == nodes[Underlying(last.operand)].sym
IsWrite == last.call \in {"assign", "preincdec", "postincdec"}

\* C6: a write (assignment, pre/post increment/decrement, through any
\* nesting of index and struct-select) to a read-only symbol draws one
\* warning when the symbol is a non-output parameter and one error when it
\* is of any other kind; a write to a symbol that is not read-only draws
\* no such diagnostic.
C6_ReadonlyWriteSeverity ==
    IsWrite =>
        IF WrittenSym # 0 /\ syms[WrittenSym].readonly
        THEN /\ Len(NewOfKind("readonly_write")) = 1
             /\ NewOfKind("readonly_write")[1].sev =
                   IF syms[WrittenSym].symtype = "Param" THEN "warning"
                   ELSE "error"
        ELSE NewOfKind("readonly_write") = <<>>

\* C10: constructing an index or a struct-select over a base of unknown
\* type emits no further diagnostic.
C10_NoCascadingDiagnostic ==
    (/\ last.call \in {"index", "structselect"}
     /\ is_unknown(nodes[last.operand].typespec))
        => Len(diags) = last.dbefore

LiveNodes == {n \in NodeIds : nodes[n].deleted = 0}

\* C8 (as claimed): no node is a child of two different nodes.
C8_NoSharedChild ==
    \A n \in LiveNodes : Cardinality(Parents(nodes, n)) <= 1

\* n is the target of a desugared compound assignment: child 0 of the
\* assignment and left operand of the binary node that is its child 1
DesugarShared(n) ==
    \E a, b \in LiveNodes :
        /\ Parents(nodes, n) = {a, b}
        /\ nodes[a].nodetype = "assign_expression"
        /\ nodes[b].nodetype = "binary_expression"
        /\ nodes[a].children = <<n, b>>
        /\ nodes[b].children[1] = n

\* n is the base of a named-component select: the child of the select
\* and the base of the index node the select synthesized
SugarShared(n) ==
    \E sel, i \in LiveNodes :
        /\ Parents(nodes, n) = {sel, i}
        /\ nodes[sel].nodetype = "structselect"
        /\ nodes[sel].compindex = i
        /\ nodes[sel].children = <<n>>
        /\ nodes[i].nodetype = "index"
        /\ Len(nodes[i].children) = 2
        /\ nodes[i].children[1] = n

\* n is the base or the index of an index node x over which a
\* named-component select synthesized a flattened index node
FlattenShared(n) ==
    \E sel, x, i \in LiveNodes :
        /\ Parents(nodes, n) = {x, i}
        /\ nodes[sel].nodetype = "structselect"
        /\ nodes[sel].compindex = i
        /\ nodes[sel].children = <<x>>
        /\ nodes[x].nodetype = "index" /\ nodes[i].nodetype = "index"
        /\ Len(nodes[x].children) = 2 /\ Len(nodes[i].children) = 3
        /\ nodes[i].children[1] = nodes[x].children[1]
        /\ nodes[i].children[2] = nodes[x].children[2]
        /\ n \in {nodes[x].children[1], nodes[x].children[2]}

\* C8 (amended): a node is the child of at most two nodes, and of two
\* only as the target of a desugared compound assignment, as the base of
\* a named-component select, or as the base or index of an index node that
\* a named-component select flattened.
C8_SharedOnlyByDesugaring ==
    \A n \in LiveNodes :
        \/ Cardinality(Parents(nodes, n)) <= 1
        \/ DesugarShared(n) \/ SugarShared(n) \/ FlattenShared(n)

\* ca[0].r += 0: the select is shared by the assignment and its binary
\* node, ca and the index 0 by the inner and the flattened index node
C8_Witness ==
    /\ last.call = "assign"
    /\ \E n \in LiveNodes : DesugarShared(n)
    /\ \E n \in LiveNodes : FlattenShared(n)

\* The right-hand side the most recent assignment was given: the literal
\* the parser reduced just before
AssignedExpr == last.nbefore + 1

\* C16: a compound assignment is rewritten at construction into a node
\* whose operator is Assign, whose child 0 is the original target and whose
\* child 1 is a new binary-expression node with the original operator, the
\* target as left operand and the original right-hand side as right
\* operand; a plain assignment keeps its two children; in both cases
\* writeability is checked exactly once, on the original target: a
\* read-only target draws one diagnostic that names its symbol, any other
\* target none.
C16_CompoundAssignRewritten ==
    last.call = "assign" =>
        /\ nodes[last.node].nodetype = "assign_expression"
        /\ nodes[last.node].op = "Assign"
        /\ Len(nodes[last.node].children) = 2
        /\ nodes[last.node].children[1] = last.operand
        /\ IF last.arg = "Assign"
           THEN nodes[last.node].children[2] = AssignedExpr
           ELSE /\ nodes[last.node].children[2] > AssignedExpr
                /\ nodes[nodes[last.node].children[2]].nodetype
                      = "binary_expression"
                /\ nodes[nodes[last.node].children[2]].op = last.arg
                /\ nodes[nodes[last.node].children[2]].children
                      = <<last.operand, AssignedExpr>>
        /\ IF WrittenSym # 0 /\ syms[WrittenSym].readonly
           THEN /\ Len(NewDiags) = 1
                /\ NewDiags[1].kind = "readonly_write"
                /\ NewDiags[1].name = syms[WrittenSym].name
           ELSE NewDiags = <<>>

\* ca[0] += 0 on the read-only parameter ca: rewritten, one diagnostic
C16_Witness ==
    /\ last.call = "assign"
    /\ last.arg = "Add"
    /\ nodes[last.operand].nodetype = "index"
    /\ nodes[nodes[last.node].children[2]].nodetype = "binary_expression"
    /\ Len(NewDiags) = 1

\* C17: a variable reference whose name find() misses draws one 'not
\* declared' error and stays of unknown type; one whose name is a function
\* or a type draws one error naming that kind and stays of unknown type;
\* any other draws no diagnostic and has the symbol's type.
C17_VariableRef ==
    last.call = "varref" =>
        IF SymFind(last.arg) = 0
        THEN /\ Len(NewDiags) = 1
             /\ NewDiags[1].sev = "error"
             /\ NewDiags[1].kind = "not_declared"
             /\ NewDiags[1].name = last.arg
             /\ nodes[last.node].typespec = TypeUnknown
        ELSE IF syms[SymFind(last.arg)].symtype \in {"Function", "Type"}
        THEN /\ Len(NewDiags) = 1
             /\ NewDiags[1].sev = "error"
             /\ NewDiags[1].kind =
                   (IF syms[SymFind(last.arg)].symtype = "Function"
                    THEN "function_as_variable" ELSE "type_as_variable")
             /\ NewDiags[1].name = last.arg
             /\ nodes[last.node].typespec = TypeUnknown
        ELSE /\ NewDiags = <<>>
             /\ nodes[last.node].typespec = syms[SymFind(last.arg)].typespec
             /\ nodes[last.node].sym = SymFind(last.arg)

\* A reference to the name of a type: one error, type unknown
C17_Witness ==
    /\ last.call = "varref"
    /\ SymFind(last.arg) # 0
    /\ syms[SymFind(last.arg)].symtype = "Type"
    /\ Len(NewDiags) = 1
    /\ nodes[last.node].typespec = TypeUnknown

\* Base types, as the type table of C18 speaks of them
Triples == {"color", "point", "vector", "normal"}
IsArrayType(t) == t.arr # 0
IsTripleType(t) == t.base \in Triples /\ t.arr = 0 /\ ~t.closure
IsMatrixType(t) == t.base = "matrix" /\ t.arr = 0 /\ ~t.closure
IsTripleArray(t) == t.base \in Triples /\ t.arr # 0 /\ ~t.closure
IsMatrixArray(t) == t.base = "matrix" /\ t.arr # 0 /\ ~t.closure

\* The type the table gives an index node of n indices over base type t
TableType(t, n) ==
    IF n = 1 /\ IsArrayType(t) THEN [t EXCEPT !.arr = 0]
    ELSE IF n = 1 /\ IsTripleType(t) THEN TypeFloat
    ELSE IF n = 2 /\ (IsMatrixType(t) \/ IsTripleArray(t)) THEN TypeFloat
    ELSE IF n = 3 /\ IsMatrixArray(t) THEN TypeFloat
    ELSE TypeUnknown

\* The most recent index node was built over an index node that holds a
\* base and one index, with one index: the constructor rearranges
FlattenedCall ==
    /\ last.arg = 1
    /\ nodes[last.operand].nodetype = "index"
    /\ Len(last.okids) = 2

\* Node i is typed by the table for n indices over base type t, with one
\* 'indexing into non-array or non-component type' error when the table
\* has no row and no diagnostic when it has
TypedByTable(i, t, n) ==
    /\ nodes[i].typespec = TableType(t, n)
    /\ IF TableType(t, n) = TypeUnknown
       THEN /\ Len(NewDiags) = 1
            /\ NewDiags[1].sev = "error"
            /\ NewDiags[1].kind = "bad_index"
            /\ NewDiags[1].node = i
       ELSE NewDiags = <<>>

\* C18: an index node built without flattening has the type the table
\* gives its base type and number of indices; every combination the table
\* has no row for leaves the type unknown and draws exactly one error, and
\* no error is drawn when the type is resolved.
C18_IndexTypeTable ==
    (last.call = "index" /\ ~FlattenedCall) =>
        /\ nodes[last.node].children[1] = last.operand
        /\ Len(nodes[last.node].children) = last.arg + 1
        /\ TypedByTable(last.node, nodes[last.operand].typespec, last.arg)

\* ma[0][0][0] on an array of matrices: float, no diagnostic
C18_Witness ==
    /\ last.call = "index"
    /\ last.arg = 3
    /\ nodes[last.operand].nodetype = "variable_ref"
    /\ IsMatrixArray(nodes[last.operand].typespec)
    /\ nodes[last.node].typespec = TypeFloat
    /\ NewDiags = <<>>

\* Index node i holds the base and the index of the inner index node and
\* then the outer index, and is typed by the two-index row of the table
\* applied to the inner base
Flattened(i, outer) ==
    /\ nodes[i].nodetype = "index"
    /\ nodes[i].children = <<last.okids[1], last.okids[2], outer>>
    /\ last.operand \notin Range(nodes[i].children)
    /\ TypedByTable(i, nodes[last.okids[1]].typespec, 2)

\* C19: an index node built with one index over an index node that holds a
\* base and one index (by the parser, or by a named-component select over
\* array[i]) is one index node with exactly three children in the order
\* (inner base, inner index, outer index), not a nested index, typed by the
\* two-index row of the table applied to the inner base: float with no
\* diagnostic over an array of triples.
C19_FlattenedIndex ==
    /\ (last.call = "index" /\ FlattenedCall)
          => Flattened(last.node, last.nbefore + 1)
    /\ (/\ last.call = "structselect"
        /\ nodes[last.node].compindex # 0
        /\ nodes[last.operand].nodetype = "index"
        /\ Len(last.okids) = 2)
          => Flattened(nodes[last.node].compindex, last.node + 1)

\* ca[0].r: the select's index node is (ca, 0, 0), float, no diagnostic
C19_Witness ==
    /\ last.call = "structselect"
    /\ nodes[last.node].compindex # 0
    /\ nodes[last.operand].nodetype = "index"
    /\ Len(last.okids) = 2
    /\ IsTripleArray(nodes[last.okids[1]].typespec)
    /\ Len(nodes[nodes[last.node].compindex].children) = 3
    /\ nodes[nodes[last.node].compindex].typespec = TypeFloat
    /\ NewDiags = <<>>

\* The component a field name denotes on a base of type t: r, g, b on a
\* color, x, y, z on a point, vector or normal; -1 when it is no component
NamedComponent(t, field) ==
    IF t.base = "color" /\ t.arr = 0 /\ ~t.closure
    THEN (CASE field = "r" -> 0 [] field = "g" -> 1 [] field = "b" -> 2
            [] OTHER -> -1)
    ELSE IF t.base \in {"point", "vector", "normal"} /\ t.arr = 0
            /\ ~t.closure
    THEN (CASE field = "x" -> 0 [] field = "y" -> 1 [] field = "z" -> 2
            [] OTHER -> -1)
    ELSE -1

\* The last child of node i: the index a select synthesized
LastChild(i) == nodes[i].children[Len(nodes[i].children)]

\* C20: selecting r, g or b on a color, or x, y or z on a point, vector or
\* normal, yields a struct-select node that is an lvalue of type float
\* without field symbol, with a synthesized index node built over the base
\* whose index is the int literal 0, 1 or 2, and no diagnostic; x, y, z on
\* a color and r, g, b on a point, vector or normal are no sugar and draw
\* the 'does not have a member' error.
C20_NamedComponentSelect ==
    last.call = "structselect" =>
        /\ NamedComponent(nodes[last.operand].typespec, last.arg) >= 0 =>
              /\ nodes[last.node].is_lvalue
              /\ nodes[last.node].typespec = TypeFloat
              /\ nodes[last.node].sym = 0
              /\ nodes[last.node].children = <<last.operand>>
              /\ nodes[last.node].compindex > last.nbefore
              /\ nodes[nodes[last.node].compindex].nodetype = "index"
              /\ nodes[nodes[last.node].compindex].children[1] =
                    (IF nodes[last.operand].nodetype = "index"
                        /\ Len(last.okids) = 2
                     THEN last.okids[1] ELSE last.operand)
              /\ LastChild(nodes[last.node].compindex) > last.nbefore
              /\ nodes[LastChild(nodes[last.node].compindex)].nodetype
                    = "literal"
              /\ nodes[LastChild(nodes[last.node].compindex)].typespec
                    = TypeInt
              /\ nodes[LastChild(nodes[last.node].compindex)].i =
                    NamedComponent(nodes[last.operand].typespec, last.arg)
              /\ NewDiags = <<>>
        /\ (/\ IsTripleType(nodes[last.operand].typespec)
            /\ last.arg \in {"r", "g", "b", "x", "y", "z"}
            /\ NamedComponent(nodes[last.operand].typespec, last.arg) < 0) =>
              /\ nodes[last.node].compindex = 0
              /\ nodes[last.node].sym = 0
              /\ Len(NewDiags) = 1
              /\ NewDiags[1].sev = "error"
              /\ NewDiags[1].kind = "no_member"

\* p.y on a point: an lvalue of type float over the index node (p, 1)
C20_Witness ==
    /\ last.call = "structselect"
    /\ last.arg = "y"
    /\ nodes[last.operand].typespec.base = "point"
    /\ nodes[last.node].is_lvalue
    /\ nodes[last.node].compindex # 0
    /\ nodes[LastChild(nodes[last.node].compindex)].i = 1
    /\ NewDiags = <<>>

\* The name of the symbol of the struct that lvalue n denotes: a variable's
\* name, a field's dotted path, and for an array element that of the array
RECURSIVE StructPath(_)
StructPath(n) ==
    CASE nodes[n].nodetype = "variable_ref" -> nodes[n].name
      [] nodes[n].nodetype = "structselect" ->
            StructPath(nodes[n].children[1]) \o "." \o nodes[n].name
      [] OTHER -> StructPath(nodes[n].children[1])

\* Whether the struct type of id structid has a field of that name
HasField(structid, field) ==
    \E k \in 1 .. Len(StructFields(structid)) :
        StructFields(structid)[k].name = field

\* C21: a struct-select that is no named-component sugar draws exactly one
\* 'does not have a member' error when its base is neither a structure nor
\* an array of structures, and exactly one error naming the structure type
\* when the structure has no field of that name, the node having no field
\* symbol and unknown type in both cases; when the field exists the node's
\* field symbol is what find('<structpath>.<field>') returns, its type is
\* that symbol's type, and no diagnostic is drawn.
C21_StructSelect ==
    (/\ last.call = "structselect"
     /\ NamedComponent(nodes[last.operand].typespec, last.arg) < 0) =>
        IF nodes[last.operand].typespec.structid = 0
        THEN /\ Len(NewDiags) = 1
             /\ NewDiags[1].sev = "error"
             /\ NewDiags[1].kind = "no_member"
             /\ nodes[last.node].sym = 0
             /\ nodes[last.node].typespec = TypeUnknown
        ELSE IF ~HasField(nodes[last.operand].typespec.structid, last.arg)
        THEN /\ Len(NewDiags) = 1
             /\ NewDiags[1].sev = "error"
             /\ NewDiags[1].kind = "no_struct_member"
             /\ NewDiags[1].name =
                   StructName(nodes[last.operand].typespec.structid)
             /\ nodes[last.node].sym = 0
             /\ nodes[last.node].typespec = TypeUnknown
        ELSE /\ NewDiags = <<>>
             /\ nodes[last.node].sym =
                   SymFind(StructPath(last.operand) \o "." \o last.arg)
             /\ nodes[last.node].sym # 0
             /\ nodes[last.node].typespec = syms[nodes[last.node].sym].typespec

\* sa[0].in: a field of an element of an array of structs
C21_Witness ==
    /\ last.call = "structselect"
    /\ last.arg = "in"
    /\ nodes[last.operand].nodetype = "index"
    /\ nodes[last.node].sym # 0
    /\ syms[nodes[last.node].sym].name = "sa.in"
    /\ NewDiags = <<>>

----------------------------------------------------------------------------
(* Calls and loops: ASTfunction_call, ASTloop_statement *)

\* Operands the parser holds before it reduces a call or a loop
MaxOperands == 4

\* is_struct_ctr(): the resolved symbol names a struct type
is_struct_ctr(sym) ==
    sym # 0 /\ syms[sym].symtype = "Type" /\ is_structure(syms[sym].typespec)

\* The symbol a call starts with: the overload given, else find(name)
CalleeSym_AlwaysFindMutant(name, funcsym) == SymFind(name)
CalleeSym(name, funcsym) == IF funcsym # 0 THEN funcsym ELSE SymFind(name)

\* ASTfunction_call(comp, name, args, funcsym), args being the list of
\* argument nodes the parser has sibling-linked and funcsym the overload
\* chosen earlier (0 = none)
ASTfunction_call(heap0, name, args, funcsym) ==
    LET new == Len(heap0) + 1
        m_sym == CalleeSym(name, funcsym)
        heap == AddRefs(Chain(heap0, args), <<ListHead(args)>>)
        nd == [ASTNode("function_call", 0, <<ListHead(args)>>) EXCEPT
                  !.name = name, !.sourceline = new]
    IN IF m_sym = 0
       THEN Built(Append(heap, nd), new,
                  <<Diag("error", "function_not_declared", new, name, <<>>)>>)
       ELSE IF is_struct_ctr(m_sym)
       THEN Built(Append(heap, [nd EXCEPT !.sym = m_sym]), new, <<>>)
       ELSE IF syms[m_sym].symtype # "Function"
       THEN Built(Append(heap, nd), new,
                  <<Diag("error", "not_a_function", new, name, <<>>)>>)
       ELSE Built(Append(heap, [nd EXCEPT !.sym = m_sym]), new, <<>>)

\* The condition child of a loop: the one given, else the new literal
LoopCondChild_KeepEmptyMutant(cond, lit) == cond
LoopCondChild(cond, lit) == IF cond = 0 THEN lit ELSE cond

\* ASTloop_statement(comp, looptype, init, cond, iter, stmt)
ASTloop_statement(heap0, looptype, init, cond, iter, stmt) ==
    LET new == Len(heap0) + 1
        nd == [ASTNode("loop_statement", looptype,
                       <<init, LoopCondChild(cond, new + 1), iter, stmt>>)
                  EXCEPT !.sourceline = new]
        heap1 == Append(AddRefs(heap0, <<init, cond, iter, stmt>>), nd)
    IN Built(IF cond = 0
             THEN Append(heap1, [IntLiteral(1) EXCEPT !.refs = 1,
                                                     !.sourceline = new + 1])
             ELSE heap1,
             new, <<>>)

(* Specification SpecStmt: a parser that reduces a call or a loop *)

CallNames == {"fn", "T", "k", "s", "u"}
LoopTypes == {"LoopWhile", "LoopDo", "LoopFor"}
OperandVals == {0, 7}

\* The overloads an earlier resolution pass may hand over: none, or the
\* function fn
Overloads ==
    {0} \cup {k \in 1 .. Len(syms) : syms[k].symtype = "Function"}

\* The parser reduces an expression: an argument, or a part of a loop
Operand ==
    /\ last.call \in {"none", "operand"}
    /\ Len(nodes) < MaxOperands
    /\ \E v \in OperandVals :
          Construct("operand",
                    Built(Append(nodes, [IntLiteral(v) EXCEPT
                                            !.sourceline = Len(nodes) + 1]),
                          Len(nodes) + 1, <<>>),
                    v)

\* The parser reduces name ( args ) over the pending expressions
Call ==
    /\ last.call \in {"none", "operand"}
    /\ \E name \in CallNames, funcsym \in Overloads :
          Construct("call",
                    ASTfunction_call(nodes, name, SeqOf(Pending), funcsym),
                    [name |-> name, args |-> SeqOf(Pending),
                     funcsym |-> funcsym])

\* The parser reduces a while, do-while or for statement whose parts, in
\* the order it reduced them, are among the pending expressions; a for
\* statement may lack any of them
Loop ==
    /\ last.call \in {"none", "operand"}
    /\ \E looptype \in LoopTypes :
       \E init, cond, iter, stmt \in Pending \cup {0} :
          /\ \A a, b \in {<<1, init>>, <<2, cond>>, <<3, iter>>, <<4, stmt>>} :
                (a[1] < b[1] /\ a[2] # 0 /\ b[2] # 0) => a[2] < b[2]
          /\ Construct("loop",
                       ASTloop_statement(nodes, looptype, init, cond, iter,
                                         stmt),
                       [looptype |-> looptype, init |-> init, cond |-> cond,
                        iter |-> iter, stmt |-> stmt])

NextStmt == Operand \/ Call \/ Loop

SpecStmt == InitTree /\ [][NextStmt]_vars

(* Properties of calls and loops, checked under SpecStmt *)

\* C22: a call node uses the overload symbol when one is supplied, without
\* consulting the table, and otherwise the symbol find(name) returns; an
\* unresolved name draws one 'not declared' error; a symbol that names a
\* struct type is accepted and retained with no diagnostic; a symbol that
\* is neither a function nor a struct type draws one 'is not a function'
\* error and the node ends with no symbol; a function symbol draws no
\* diagnostic and is retained.
C22_CallResolution ==
    last.call = "call" =>
        LET given == last.arg.funcsym
            found == IF given # 0 THEN given ELSE SymFind(last.arg.name)
        IN /\ nodes[last.node].nodetype = "function_call"
           /\ nodes[last.node].children = <<ListHead(last.arg.args)>>
           /\ IF found = 0
              THEN /\ Len(NewDiags) = 1
                   /\ NewDiags[1].sev = "error"
                   /\ NewDiags[1].kind = "function_not_declared"
                   /\ nodes[last.node].sym = 0
              ELSE IF syms[found].symtype = "Type"
              THEN NewDiags = <<>> /\ nodes[last.node].sym = found
              ELSE IF syms[found].symtype # "Function"
              THEN /\ Len(NewDiags) = 1
                   /\ NewDiags[1].sev = "error"
                   /\ NewDiags[1].kind = "not_a_function"
                   /\ NewDiags[1].name = last.arg.name
                   /\ nodes[last.node].sym = 0
              ELSE NewDiags = <<>> /\ nodes[last.node].sym = found

\* A call by a name that is declared nowhere, with the overload supplied:
\* the overload is used and nothing is reported
C22_Witness ==
    /\ last.call = "call"
    /\ SymFind(last.arg.name) = 0
    /\ last.arg.funcsym # 0
    /\ nodes[last.node].sym = last.arg.funcsym
    /\ Len(last.arg.args) = 2
    /\ NewDiags = <<>>

\* C23: the condition child (child 1) of a constructed loop node is never
\* absent: a new int literal of value 1 when no condition was given, the
\* very node given, unchanged, otherwise; the initializer, iteration and
\* body children are exactly the nodes passed in.
C23_LoopCondition ==
    last.call = "loop" =>
        /\ nodes[last.node].nodetype = "loop_statement"
        /\ nodes[last.node].op = last.arg.looptype
        /\ Len(nodes[last.node].children) = 4
        /\ nodes[last.node].children[1] = last.arg.init
        /\ nodes[last.node].children[3] = last.arg.iter
        /\ nodes[last.node].children[4] = last.arg.stmt
        /\ nodes[last.node].children[2] # 0
        /\ IF last.arg.cond = 0
           THEN /\ nodes[last.node].children[2] > last.nbefore
                /\ nodes[last.node].children[2] # last.node
                /\ nodes[nodes[last.node].children[2]].nodetype = "literal"
                /\ nodes[nodes[last.node].children[2]].typespec = TypeInt
                /\ nodes[nodes[last.node].children[2]].i = 1
           ELSE /\ nodes[last.node].children[2] = last.arg.cond
                /\ \A n \in 1 .. last.nbefore :
                      [nodes[n] EXCEPT !.refs = 0] =
                          [IntLiteral(nodes[n].i) EXCEPT !.sourceline = n]
        /\ NewDiags = <<>>

\* for (init; ; iter) body: the condition is the new literal 1
C23_Witness ==
    /\ last.call = "loop"
    /\ last.arg.looptype = "LoopFor"
    /\ last.arg.cond = 0
    /\ last.arg.init # 0 /\ last.arg.iter # 0 /\ last.arg.stmt # 0
    /\ nodes[nodes[last.node].children[2]].i = 1

----------------------------------------------------------------------------
(* Sibling lists and destruction: reverse, list_to_vec, vec_to_list,
   ~ASTNode *)

\* A running ~ASTNode(): the node, where it is (in the unlink loop, or
\* past the body releasing its members) and the next member to release
Frame(node) == [node |-> node, pc |-> "loop", k |-> 1]

\* What a step on the heap and the destructor stack yields
Heaped(heap, stack) == [heap |-> heap, stack |-> stack]

\* A reference to n goes away: the count drops, and at zero the node is
\* deleted, which calls its destructor
ReleaseRef(heap, stack, n) ==
    IF n = 0 THEN Heaped(heap, stack)
    ELSE IF heap[n].refs > 1
    THEN Heaped([heap EXCEPT ![n].refs = @ - 1], stack)
    ELSE Heaped([heap EXCEPT ![n].refs = 0], Append(stack, Frame(n)))

\* while (m_next)
LoopCondition_NeverMutant(heap, this) == FALSE
LoopCondition(heap, this) == heap[this].next # 0

\* ref n = m_next;  m_next = n->m_next;  n->m_next.reset();
\* n holds the reference m_next gave up, m_next the one n->m_next gave up
UnlinkNext(heap, this) ==
    [heap EXCEPT ![this].next = heap[heap[this].next].next,
                 ![heap[this].next].next = 0]

\* The references a node's members hold when its destructor body is done
Members(heap, this) == heap[this].children \o <<heap[this].next>>

\* One step of the innermost running destructor: an iteration of the
\* loop (at whose end n goes out of scope), the end of the loop, the
\* release of one member, or the return
DtorStepFn(heap, stack) ==
    LET top == Len(stack)
        this == stack[top].node
        k == stack[top].k
        rest == SubSeq(stack, 1, top - 1)
    IN IF stack[top].pc = "loop"
       THEN IF LoopCondition(heap, this)
            THEN ReleaseRef(UnlinkNext(heap, this), stack, heap[this].next)
            ELSE Heaped(heap, [stack EXCEPT ![top].pc = "members"])
       ELSE IF k <= Len(Members(heap, this))
       THEN ReleaseRef(heap, [stack EXCEPT ![top].k = k + 1],
                       Members(heap, this)[k])
       ELSE Heaped([heap EXCEPT ![this].deleted = @ + 1, ![this].next = 0],
                   rest)

\* The destructors that a release started, run to their return
RECURSIVE RunDtor(_)
RunDtor(hs) ==
    IF hs.stack = <<>> THEN hs.heap
    ELSE RunDtor(DtorStepFn(hs.heap, hs.stack))

\* A reference to n goes away inside an operation that carries on after
\* the destructors have returned
Drop(heap, n) == RunDtor(ReleaseRef(heap, <<>>, n))
RECURSIVE DropAll(_, _)
DropAll(heap, ids) ==
    IF ids = <<>> THEN heap ELSE DropAll(Drop(heap, Head(ids)), Tail(ids))

\* One more reference to n (n may be null)
Hold(heap, n) == IF n = 0 THEN heap ELSE [heap EXCEPT ![n].refs = @ + 1]

\* m_next of node n is assigned to: the new target gains a reference,
\* then the old one loses its
SetNext(heap, n, to) ==
    LET old == heap[n].next
    IN Drop([Hold(heap, to) EXCEPT ![n].next = to], old)

\* A reverse() that hands the list back as it got it
reverse_KeepOrderMutant(heap, list, new_list) ==
    [heap |-> heap, head |-> list]

\* reverse(list): the loop, list and new_list being its two references
RECURSIVE reverse(_, _, _)
reverse(heap, list, new_list) ==
    IF list = 0 THEN [heap |-> heap, head |-> new_list]
    ELSE reverse([heap EXCEPT ![list].next = new_list], heap[list].next,
                 list)

\* A list_to_vec() that appends to what vec holds already
list_to_vec_NoClearMutant(heap, A, v) ==
    [heap |-> AddRefs(heap, SiblingList(heap, A)),
     vec |-> v \o SiblingList(heap, A)]

\* list_to_vec(A, vec): vec.clear(), then push_back along the list
list_to_vec(heap, A, v) ==
    LET cleared == DropAll(heap, v)
        filled == SiblingList(cleared, A)
    IN [heap |-> AddRefs(cleared, filled), vec |-> filled]

\* vec_to_list(vec): vec[i]->m_next = vec[i + 1], the last one's = NULL
RECURSIVE Relink(_, _, _)
Relink(heap, v, i) ==
    IF i > Len(v) THEN heap
    ELSE Relink(SetNext(heap, v[i], IF i < Len(v) THEN v[i + 1] ELSE 0),
                v, i + 1)
vec_to_list(heap, v) ==
    IF Len(v) > 0 THEN [heap |-> Relink(heap, v, 1), head |-> v[1]]
    ELSE [heap |-> heap, head |-> 0]

----------------------------------------------------------------------------
(* Specification SpecList: a parser that builds, rearranges and drops a
   sibling list *)

\* The list the parser holds: its head (0 when it holds none), its nodes
ListHeld == IF roots = {} THEN 0 ELSE CHOOSE n \in roots : TRUE
ListNodes == SiblingList(nodes, ListHeld)
ListTail == ListNodes[Len(ListNodes)]

InitList ==
    /\ nodes = <<>>
    /\ syms = <<>>
    /\ scopestack = <<0>>
    /\ nextscope = 1
    /\ diags = <<>>
    /\ extcalls = <<>>
    /\ last = NoCall
    /\ crashed = FALSE
    /\ dstack = <<>>
    /\ roots = {}
    /\ vec = <<>>

\* The heap with one more list element: a literal, or a unary expression
\* over a literal
WithElement(heap, unary) ==
    IF unary
    THEN Append(Append(heap, [IntLiteral(0) EXCEPT !.refs = 1]),
                ASTNode("unary_expression", "Neg", <<Len(heap) + 1>>))
    ELSE Append(heap, IntLiteral(0))

\* The parser reduces one more element (the first one may be a unary
\* expression) and appends it to its list, as long as it has destroyed
\* nothing
Cons ==
    /\ dstack = <<>>
    /\ Len(ListNodes) < MaxChain
    /\ \A n \in NodeIds : nodes[n].deleted = 0
    /\ \E unary \in {FALSE, ListHeld = 0} :
        LET heap == WithElement(nodes, unary)
            new == Len(heap)
        IN /\ nodes' = IF ListHeld = 0 THEN Hold(heap, new)
                       ELSE SetNext(heap, ListTail, new)
           /\ roots' = IF ListHeld = 0 THEN {new} ELSE roots
           /\ last' = [call |-> "cons", node |-> new]
    /\ UNCHANGED <<syms, scopestack, nextscope, diags, extcalls, crashed,
                   dstack, vec>>

\* list = reverse(list)
Reverse ==
    /\ dstack = <<>>
    /\ LET r == reverse(nodes, ListHeld, 0)
       IN /\ nodes' = r.heap
          /\ roots' = {r.head} \ {0}
          /\ last' = [call |-> "reverse", list |-> ListNodes,
                      result |-> r.head, nbefore |-> Len(nodes),
                      dead |-> {n \in NodeIds : nodes[n].deleted # 0}]
    /\ UNCHANGED <<syms, scopestack, nextscope, diags, extcalls, crashed,
                   dstack, vec>>

\* list_to_vec(list, vec)
ListToVec ==
    /\ dstack = <<>>
    /\ LET r == list_to_vec(nodes, ListHeld, vec)
       IN /\ nodes' = r.heap
          /\ vec' = r.vec
          /\ last' = [call |-> "list_to_vec", list |-> ListNodes,
                      vbefore |-> vec,
                      links |-> [n \in NodeIds |-> nodes[n].next]]
    /\ UNCHANGED <<syms, scopestack, nextscope, diags, extcalls, crashed,
                   dstack, roots>>

\* list = vec_to_list(vec)
VecToList ==
    /\ dstack = <<>>
    /\ LET r == vec_to_list(nodes, vec)
       IN /\ nodes' = Drop(Hold(r.heap, r.head), ListHeld)
          /\ roots' = {r.head} \ {0}
          /\ last' = [call |-> "vec_to_list", list |-> ListNodes,
                      result |-> r.head,
                      chain |-> SiblingList(r.heap, r.head),
                      links |-> [n \in NodeIds |-> r.heap[n].next]]
    /\ UNCHANGED <<syms, scopestack, nextscope, diags, extcalls, crashed,
                   dstack, vec>>

\* The parser drops its list: the head loses the parser's reference
ReleaseList ==
    /\ dstack = <<>>
    /\ ListHeld # 0
    /\ LET r == ReleaseRef(nodes, <<>>, ListHeld)
       IN /\ nodes' = r.heap
          /\ dstack' = r.stack
    /\ roots' = {}
    /\ last' = [call |-> "release", head |-> ListHeld, list |-> ListNodes,
                sole |-> \A k \in 1 .. Len(ListNodes) :
                            nodes[ListNodes[k]].refs = 1,
                links |-> [n \in NodeIds |-> nodes[n].next]]
    /\ UNCHANGED <<syms, scopestack, nextscope, diags, extcalls, crashed,
                   vec>>

\* The running destructor takes its next step
DtorStep ==
    /\ dstack # <<>>
    /\ LET r == DtorStepFn(nodes, dstack)
       IN /\ nodes' = r.heap
          /\ dstack' = r.stack
    /\ UNCHANGED <<syms, scopestack, nextscope, diags, extcalls, last,
                   crashed, roots, vec>>

NextList ==
    Cons \/ Reverse \/ ListToVec \/ VecToList \/ ReleaseList \/ DtorStep

SpecList == InitList /\ [][NextList]_vars

\* A destructor that has been called runs on until it returns
SpecListLive == SpecList /\ WF_vars(DtorStep)

----------------------------------------------------------------------------
(* Properties of destruction, checked under SpecListLive *)

\* The parser has dropped a list that it alone owned: every node of the
\* list was held by one reference only
SoleRelease == last.call = "release" /\ last.sole

\* Every node of the dropped list has been destroyed exactly once and no
\* destructor is running any more
TornDown ==
    /\ last.call = "release"
    /\ dstack = <<>>
    /\ \A k \in 1 .. Len(last.list) : nodes[last.list[k]].deleted = 1

\* The running destructor calls that are on nodes of the dropped list:
\* the nesting that sibling links cause
ListFrames ==
    {k \in 1 .. Len(dstack) : dstack[k].node \in Range(last.list)}

\* C9: destroying the head of a solely owned sibling list terminates,
\* destroys every node of the list exactly once, and never nests more
\* than two destructor calls on nodes of the list, whatever its length:
\* the head's and that of the one sibling it has unlinked and is
\* releasing.
C9_IterativeTeardown ==
    /\ [](SoleRelease =>
            /\ Cardinality(ListFrames) <= 2
            /\ \A k \in 1 .. Len(last.list) :
                  nodes[last.list[k]].deleted <= 1)
    /\ (SoleRelease ~> TornDown)

\* A solely owned list of at least three nodes has been torn down
C9_Witness ==
    /\ SoleRelease
    /\ Len(last.list) >= 3
    /\ TornDown

----------------------------------------------------------------------------
(* Properties of the list operations, checked under SpecList *)

\* The sequence s back to front
Backwards(s) == [k \in 1 .. Len(s) |-> s[Len(s) + 1 - k]]

\* C24: reverse(list) relinks the nodes of the list in reverse order and
\* neither creates nor destroys a node: the head it returns is the former
\* last node, the former head has no next sibling any more, the list has
\* the same nodes and the same length, reversing the result once more
\* gives the original order back, and the reverse of the empty list is the
\* empty list.
C24_ReverseRelinks ==
    last.call = "reverse" =>
        LET again == reverse(nodes, last.result, 0)
        IN /\ SiblingList(nodes, last.result) = Backwards(last.list)
           /\ Len(nodes) = last.nbefore
           /\ {n \in NodeIds : nodes[n].deleted # 0} = last.dead
           /\ IF last.list = <<>> THEN last.result = 0
              ELSE /\ last.result = last.list[Len(last.list)]
                   /\ nodes[last.list[1]].next = 0
           /\ SiblingList(again.heap, again.head) = last.list
           /\ again.head = IF last.list = <<>> THEN 0 ELSE last.list[1]

\* A list of three nodes has been reversed
C24_Witness ==
    /\ last.call = "reverse"
    /\ Len(last.list) = 3
    /\ last.result = last.list[3]
    /\ nodes[last.list[1]].next = 0

\* C25: list_to_vec(A, vec) empties vec and fills it with the nodes of the
\* chain from A, in order, and leaves every sibling link as it was;
\* vec_to_list(vec) links vec[i] to vec[i + 1], clears the next link of the
\* last element and returns vec[0], or the empty reference for an empty
\* vec; so vec_to_list of what list_to_vec has just filled returns the
\* same head with the same chain.
C25_ListVecRoundTrip ==
    /\ last.call = "list_to_vec" =>
          LET back == vec_to_list(nodes, vec)
          IN /\ vec = last.list
             /\ \A n \in NodeIds :
                   nodes[n].deleted = 0 => nodes[n].next = last.links[n]
             /\ back.head = ListHeld
             /\ SiblingList(back.heap, back.head) = last.list
    /\ last.call = "vec_to_list" =>
          /\ last.chain = vec
          /\ last.result = IF vec = <<>> THEN 0 ELSE vec[1]
          /\ \A i \in 1 .. Len(vec) :
                last.links[vec[i]] = IF i < Len(vec) THEN vec[i + 1] ELSE 0

\* A vec that held other nodes has been refilled from a list of three nodes
C25_Witness ==
    /\ last.call = "list_to_vec"
    /\ Len(last.list) = 3
    /\ last.vbefore # <<>>
    /\ last.vbefore # last.list
    /\ vec = last.list

\* A vec whose order differs from that of the list has been linked into a
\* list of three nodes
C25_WitnessRelinked ==
    /\ last.call = "vec_to_list"
    /\ Len(vec) = 3
    /\ last.list # vec
    /\ last.chain = vec

----------------------------------------------------------------------------
(* Further properties of declarations, checked under SpecDecl *)

\* The calls of add_struct_fields the last constructor has made
NewFieldCalls ==
    SelectSeq(SubSeq(extcalls, last.xbefore + 1, Len(extcalls)),
              LAMBDA c : c.fn = "add_struct_fields")

\* C26: a variable declaration of structure or array-of-structures type
\* requests struct-field materialization exactly once, when its own
\* symbol is in the table, with the declared name as base name, the kind
\* of its own symbol, the array length (-1 for an unsized array), the
\* declaration node and its initializer; a declaration of any other type
\* requests none.
C26_StructFieldsRequested ==
    last.call = "vardecl" =>
        IF is_structure(last.type) \/ is_structure_array(last.type)
        THEN /\ Len(NewFieldCalls) = 1
             /\ syms[nodes[last.node].sym].inserted = 1
             /\ NewFieldCalls[1] =
                  [fn |-> "add_struct_fields",
                   structid |-> last.type.structid,
                   basename |-> last.name,
                   symtype |-> syms[nodes[last.node].sym].symtype,
                   arraylen |-> IF last.type.arr < 0 THEN -1
                                ELSE last.type.arr,
                   node |-> last.node, init |-> last.init,
                   inserted |-> TRUE]
        ELSE NewFieldCalls = <<>>

\* An unsized array of structures with an initializer list has been
\* declared
C26_Witness ==
    /\ last.call = "vardecl"
    /\ is_structure_array(last.type)
    /\ last.init # 0
    /\ Len(NewFieldCalls) = 1
    /\ NewFieldCalls[1].arraylen = -1

----------------------------------------------------------------------------
(* Properties of metadata tags, checked under SpecMeta *)

\* How many of the metadata declarations of the last add_meta carry tag
TagCount(tag) ==
    Cardinality({k \in 1 .. Len(last.metas) :
                    nodes[last.metas[k]].name = tag})

\* n sentinels
RECURSIVE Dots(_)
Dots(n) == IF n = 0 THEN "" ELSE "." \o Dots(n - 1)

\* Some formal of the declaration is an output parameter
HasOutputFormal(fn) ==
    \E f \in NodeIds :
        /\ f \in Range(SiblingList(nodes, formals(fn)))
        /\ nodes[f].isoutput

\* What the tags of the last add_meta make of the function symbol as it
\* was before: each flag is set by its own tag (and the read-write special
\* case also by builtin over an output formal), the signature encoding
\* gets one sentinel per builtin tag of a closure, the rest stays
TaggedSymbol(before, fn) ==
    [before EXCEPT
        !.argcodes = IF is_closure(before.typespec)
                     THEN @ \o Dots(TagCount("builtin")) ELSE @,
        !.readwrite_special_case =
            \/ @
            \/ "rw" \in last.tags
            \/ "builtin" \in last.tags /\ HasOutputFormal(fn),
        !.takes_derivs = @ \/ "derivs" \in last.tags,
        !.printf_args = @ \/ "printf_args" \in last.tags,
        !.texture_args = @ \/ "texture_args" \in last.tags]

\* The effect of the tags on a declaration that has a symbol
TagsApplied ==
    /\ ~crashed
    /\ nodes[last.node].is_builtin = ("builtin" \in last.tags)
    /\ Len(syms) = Len(last.tabbefore)
    /\ \A k \in 1 .. Len(syms) :
          syms[k] = IF k = last.sym
                    THEN TaggedSymbol(last.tabbefore[k], last.node)
                    ELSE last.tabbefore[k]

\* C27: add_meta with a tag builtin marks the function builtin, appends
\* the sentinel "." to the signature encoding of the function symbol
\* exactly when the return type is a closure, and sets the read-write
\* special case exactly when some formal is an output parameter; derivs,
\* printf_args, texture_args and rw each set their own flag only; a tag
\* of any other name changes nothing.
C27_MetaTags == last.call = "add_meta" => TagsApplied

\* The same, for the declarations that have a function symbol: those
\* whose formals all have a known type
MetaTagsOfDeclaredFunction ==
    (last.call = "add_meta" /\ last.sym # 0) => TagsApplied

\* A builtin closure with an output formal has been tagged builtin
MetaTagsOfDeclaredFunction_Witness ==
    /\ last.call = "add_meta"
    /\ last.sym # 0
    /\ "builtin" \in last.tags
    /\ is_closure(syms[last.sym].typespec)
    /\ HasOutputFormal(last.node)
    /\ syms[last.sym].readwrite_special_case

----------------------------------------------------------------------------
(* Properties of destruction with several owners, checked under SpecList *)

\* The destruction the parser's release started is over, and has
\* destroyed the head of the list
Destroyed ==
    /\ last.call = "release"
    /\ dstack = <<>>
    /\ nodes[last.head].deleted # 0

\* The nodes that existed when the list was released and still exist
Survivors == {n \in DOMAIN last.links : nodes[n].deleted = 0}

\* The chain from n along the links as they were at the release
RECURSIVE ChainThen(_)
ChainThen(n) == IF n = 0 THEN <<>> ELSE <<n>> \o ChainThen(last.links[n])

\* C28: destroying a node changes nothing in the nodes that outlive it: a
\* sibling of its chain that another reference still holds keeps its own
\* next link and the rest of its chain.
C28_SurvivorsUntouched ==
    Destroyed =>
        \A n \in Survivors :
            /\ nodes[n].next = last.links[n]
            /\ SiblingList(nodes, n) = ChainThen(n)

\* What the destructor does leave alone: a survivor that has lost its next
\* link was a sibling behind the destroyed head, and every other survivor
\* has the link it had
SurvivorsUnlinkedOnly ==
    Destroyed =>
        \A n \in Survivors :
            \/ nodes[n].next = last.links[n]
            \/ /\ nodes[n].next = 0
               /\ n \in Range(Tail(last.list))

\* A sibling that a vector still holds has survived the destruction of the
\* head of its list, without the next link it had
SurvivorsUnlinkedOnly_Witness ==
    /\ Destroyed
    /\ \E n \in Survivors :
          /\ n \in Range(vec)
          /\ last.links[n] # 0
          /\ nodes[n].next = 0

----------------------------------------------------------------------------
(* Properties of the writeability check, checked under SpecWrite *)

\* The symbol the checked lvalue bottoms out in (0 when it has none)
CheckedSym == nodes[Underlying(last.var)].sym
CheckedReadonly == CheckedSym # 0 /\ syms[CheckedSym].readonly
IsWrapper(n) == nodes[n].nodetype \in {"index", "structselect"}

\* The result is false exactly when the underlying symbol is read-only
ResultTellsReadonly == last.ok = ~CheckedReadonly

\* C29: check_symbol_writeability(var, quiet, dest_sym) treats an index or
\* struct-select node as it treats the variable reference underneath:
\* quiet suppresses the warning, *dest_sym receives the underlying symbol,
\* and the result is false exactly when the underlying symbol is
\* read-only, true otherwise (also when there is no symbol).
C29_WriteabilityThroughWrappers ==
    last.call = "check_symbol_writeability" =>
        /\ ResultTellsReadonly
        /\ last.wantsym => last.dest_sym = CheckedSym
        /\ Len(NewDiags) =
              IF CheckedReadonly /\ ~last.quiet THEN 1 ELSE 0

\* What does hold: the result is right through any nesting, and on a bare
\* variable reference quiet and dest_sym are honoured
WriteabilityOfBareReference ==
    last.call = "check_symbol_writeability" =>
        /\ ResultTellsReadonly
        /\ ~IsWrapper(last.var) =>
              /\ last.wantsym => last.dest_sym = CheckedSym
              /\ Len(NewDiags) =
                    IF CheckedReadonly /\ ~last.quiet THEN 1 ELSE 0

\* A quiet check with a symbol pointer on a bare reference to a
\* read-only symbol
WriteabilityOfBareReference_Witness ==
    /\ last.call = "check_symbol_writeability"
    /\ ~IsWrapper(last.var)
    /\ CheckedReadonly
    /\ last.quiet
    /\ last.wantsym
    /\ ~last.ok
    /\ last.dest_sym = CheckedSym
    /\ NewDiags = <<>>

----------------------------------------------------------------------------
(* Totality of integer folding, checked under SpecFold *)

\* a * 2^k reduced to 32 bits, k of either sign: a left shift by k, an
\* arithmetic right shift by -k
ShiftedBy(a, k) ==
    IF k >= IntBits THEN 0
    ELSE IF k >= 0 THEN Shl32(a, k)
    ELSE IF k > -IntBits THEN Sar32(a, -k)
    ELSE IF a < 0 THEN -1 ELSE 0

\* The mathematical result of a op b reduced modulo 2^32 to an int
WrappedInt(op, a, b) ==
    CASE op = "Mul" -> WrapMul(a, b)
      [] op = "Add" -> WrapAdd(a, b)
      [] op = "Sub" -> WrapSub(a, b)
      [] op = "Div" -> IF b = 0 THEN 0
                       ELSE IF a = INT_MIN /\ b = -1 THEN INT_MIN
                       ELSE TruncDiv(a, b)
      [] op = "Mod" -> IF b = 0 \/ b = -1 THEN 0 ELSE TruncMod(a, b)
      [] op = "ShiftLeft"  -> ShiftedBy(a, b)
      [] op = "ShiftRight" -> ShiftedBy(a, -b)
      [] OTHER -> ExactInt(op, a, b)

\* The folded literal is the wrapped result
FoldedWrapped ==
    /\ ~last.trapped
    /\ last.result # 0
    /\ IsLiteralOf(last.result, TypeInt)
    /\ nodes[last.result].i
         = WrappedInt(last.op, nodes[last.left].i, nodes[last.right].i)

\* C30: folding two int literals is total and wraps: for every pair of
\* 32-bit values and every folded operator, make yields the int literal of
\* the mathematical result reduced modulo 2^32, also for products, sums and
\* differences that overflow, for INT_MIN / -1 and INT_MIN % -1 and for
\* shifts by a negative count or one of at least 32; no pair traps.
C30_IntFoldTotal ==
    (MadeOver(TypeInt) /\ last.op \in IntFoldOps) => FoldedWrapped

\* The evaluation of a op b on a C++ int is defined
DefinedOnInt(op, a, b) ==
    CASE op \in {"Div", "Mod"} -> ~(a = INT_MIN /\ b = -1)
      [] op = "ShiftLeft" ->
            b >= 0 /\ b < IntBits /\ a >= 0 /\ ~ShlOverflows(a, b)
      [] op = "ShiftRight" -> b >= 0 /\ b < IntBits
      [] OTHER -> ExactIsInt(op, a, b)

\* The same, for the pairs whose evaluation on a C++ int is defined
IntFoldWrapsWhereDefined ==
    (/\ MadeOver(TypeInt)
     /\ last.op \in IntFoldOps
     /\ DefinedOnInt(last.op, nodes[last.left].i, nodes[last.right].i))
    => FoldedWrapped

\* A division of INT_MIN by a divisor other than 0 and -1 has been folded
IntFoldWrapsWhereDefined_Witness ==
    /\ MadeOver(TypeInt)
    /\ last.op = "Div"
    /\ nodes[last.left].i = INT_MIN
    /\ nodes[last.right].i = 2
    /\ FoldedWrapped


====
